---- MODULE Spec2Model ----
(***************************************************************************)
(* EVM Multi Wallet Tracker (src/src/App.jsx): the React component's state, *)
(* the balance aggregation pass fetchBalancesOnce with one step per        *)
(* awaited network call, the refresh loop that starts passes, the import   *)
(* of wallets from a file, and the exports and the table of the rows.      *)
(***************************************************************************)
EXTENDS Integers, Sequences, FiniteSets, TLC

VARIABLES
    chains,       \* useState: [{id, rpc, symbol}]
    wallets,      \* useState: [string]
    tokens,       \* useState: { chainId: [{address, symbol, decimals}] }
    intervalSec,  \* useState: refresh interval
    running,      \* useState: Start/Stop flag
    lastUpdated,  \* useState: time of the last publication, or Null
    rows,         \* useState: the displayed result set
    loading,      \* useState
    error,        \* useState: the top-level error, or Null
    timerRef,     \* useRef: the interval the effect created, or Null
    timers,       \* the intervals the browser has active, each the closure it calls
    passes,       \* the invocations of fetchBalancesOnce in flight, in start order
    now,          \* the clock read by new Date()
    nextId,       \* history: number of passes started so far
    rowsBy,       \* history: for each displayed row, the pass that pushed it
    done,         \* history: the pass whose last step set the state last, or Null
    imported,     \* history: the last import of a wallet file, or Null
    output,       \* history: what was last exported or rendered, or Null
    reads,        \* the files chosen whose file.arrayBuffer() is pending
    files,        \* history: number of files chosen so far
    edits,        \* history: number of edits of the form so far
    crashed       \* a render threw and React removed the component from the page

vars == <<chains, wallets, tokens, intervalSec, running, lastUpdated, rows,
          loading, error, timerRef, timers, passes, now, nextId, rowsBy, done,
          imported, output, reads, files, edits, crashed>>

config == <<chains, wallets, tokens>>
history == <<nextId, rowsBy, done, imported, output, reads, files, edits>>

\* a nullable value: null is Null, the value v is Some(v)
Null == <<>>
Some(v) == <<v>>
\* F of the value of e, which is computed once
With(e, F(_)) == CHOOSE r \in { F(v) : v \in {e} } : TRUE
\* getAddress signals a throw by returning THROWS instead of an address
THROWS == "throws"

(***************************************************************************)
(* Bounds of the model.                                                    *)
(***************************************************************************)
MaxWallets == 2     \* length of the wallet list drawn for a single pass
MaxFaults == 3      \* failing network calls within one pass
MaxPasses == 2      \* passes in flight at the same time
MaxStarts == 3      \* passes started in one behaviour
MaxEdits == 1       \* edits of the form in one behaviour
MaxReads == 2       \* files chosen for import in one behaviour

(***************************************************************************)
(* Strings.                                                                *)
(***************************************************************************)
\* a || b on strings
OrElse(a, b) == IF a = "" THEN b ELSE a

\* s.slice(0, n)
Slice(s, n) == IF Len(s) <= n THEN s ELSE SubSeq(s, 1, n)

StartsWith(s, prefix) ==
    /\ Len(s) >= Len(prefix)
    /\ SubSeq(s, 1, Len(prefix)) = prefix

(***************************************************************************)
(* Keccak-256 of the 40 characters of an address (one block of the sponge  *)
(* of rate 136 bytes).  A 64-bit lane is the set of the positions of its   *)
(* bits that are 1, bit 0 the least significant; the state is the sequence *)
(* of its 25 lanes, lane (x, y) at index x + 5y + 1.                        *)
(***************************************************************************)
\* a ^ b
Xor(a, b) == (a \ b) \cup (b \ a)

\* a rotated left by r bits
Rotl(a, r) == { (i + r) % 64 : i \in a }

\* the round constants of keccak-f[1600]
RoundConstants ==
    << {0}, {1, 7, 15}, {1, 3, 7, 15, 63}, {15, 31, 63}, {0, 1, 3, 7, 15}, {0, 31},
       {0, 7, 15, 31, 63}, {0, 3, 15, 63}, {1, 3, 7}, {3, 7}, {0, 3, 15, 31},
       {1, 3, 31}, {0, 1, 3, 7, 15, 31}, {0, 1, 3, 7, 63}, {0, 3, 7, 15, 63},
       {0, 1, 15, 63}, {1, 15, 63}, {7, 63}, {1, 3, 15}, {1, 3, 31, 63},
       {0, 7, 15, 31, 63}, {7, 15, 63}, {0, 31}, {3, 15, 31, 63} >>

\* the rotation offset of each lane
RotationOffsets ==
    << 0, 1, 62, 28, 27, 36, 44, 6, 55, 20, 3, 10, 43, 25, 39, 41, 45, 15,
       21, 8, 18, 2, 61, 56, 14 >>

\* lane (x mod 5, y) of the state a
Lane(a, x, y) == a[(x % 5) + 5 * y + 1]

\* theta: every lane ^ the parity of the column before ^ that of the column after, rotated by 1
Theta(a) ==
    With(SubSeq([x \in 1..5 |->
             Xor(Xor(Xor(Xor(a[x], a[x + 5]), a[x + 10]), a[x + 15]), a[x + 20])], 1, 5),
         LAMBDA c :
    With(SubSeq([x \in 1..5 |-> Xor(c[((x + 3) % 5) + 1], Rotl(c[(x % 5) + 1], 1))], 1, 5),
         LAMBDA d :
    SubSeq([i \in 1..25 |-> Xor(a[i], d[((i - 1) % 5) + 1])], 1, 25)))

\* rho and pi: lane (x, y) rotated by its offset goes to (y, 2x + 3y)
RhoPi(a) ==
    SubSeq([j \in 1..25 |->
        With(((((j - 1) % 5) + 3 * ((j - 1) \div 5)) % 5) + 5 * ((j - 1) % 5) + 1,
             LAMBDA i : Rotl(a[i], RotationOffsets[i]))], 1, 25)

\* chi: lane (x, y) ^ (~lane (x + 1, y) & lane (x + 2, y))
Chi(b) ==
    SubSeq([j \in 1..25 |->
        Xor(b[j], Lane(b, j + 1, (j - 1) \div 5) \ Lane(b, j, (j - 1) \div 5))], 1, 25)

\* iota: the round constant into lane (0, 0)
Iota(a, round) == <<Xor(a[1], RoundConstants[round])>> \o SubSeq(a, 2, 25)

RECURSIVE KeccakF(_, _)

\* the rounds of keccak-f[1600] from round on
KeccakF(a, round) ==
    IF round > 24 THEN a
    ELSE With(Iota(Chi(RhoPi(Theta(a))), round), LAMBDA next : KeccakF(next, round + 1))

\* charCodeAt(0) of a lower-case hex digit
CharCode ==
    ("0" :> 48) @@ ("1" :> 49) @@ ("2" :> 50) @@ ("3" :> 51) @@ ("4" :> 52) @@
    ("5" :> 53) @@ ("6" :> 54) @@ ("7" :> 55) @@ ("8" :> 56) @@ ("9" :> 57) @@
    ("a" :> 97) @@ ("b" :> 98) @@ ("c" :> 99) @@ ("d" :> 100) @@ ("e" :> 101) @@
    ("f" :> 102)

Pow2 == <<1, 2, 4, 8, 16, 32, 64, 128>>

\* lane k (from 0) of the 40 characters: eight bytes, the first the least significant
Absorbed(chars, k) ==
    { n \in 0..63 :
        (CharCode[SubSeq(chars, 8 * k + (n \div 8) + 1, 8 * k + (n \div 8) + 1)]
            \div Pow2[(n % 8) + 1]) % 2 = 1 }

\* the state after the 40 characters and the padding 0x01 .. 0x80 are absorbed
Block(chars) ==
    SubSeq([k \in 1..25 |->
        IF k <= 5 THEN Absorbed(chars, k - 1)
        ELSE IF k = 6 THEN {0}
        ELSE IF k = 17 THEN {63}
        ELSE {}], 1, 25)

\* keccak256 of the 40 characters: the digest is the first four lanes
keccak256(chars) == KeccakF(Block(chars), 1)

(***************************************************************************)
(* Addresses: ethers.getAddress.  An address is 40 hex digits after an     *)
(* optional 0x; its checksummed form is its EIP-55 spelling, where a digit *)
(* a-f is in upper case when the nibble of keccak256 at its place is 8 or  *)
(* more.  A mixed-case spelling that is not the checksummed one is         *)
(* rejected.  An ICAP spelling (XE, two check digits, 30 or 31 digits in   *)
(* base 36) with the right check digits is the address of its number.      *)
(* Every other string is rejected.                                         *)
(***************************************************************************)
ADDR_ZERO == "0x0000000000000000000000000000000000000000"
ADDR_A_LOWER == "0x5aaeb6053f3e94c9b9a09f33669435e7ef1beaed"
ADDR_A_UPPER == "0x5AAEB6053F3E94C9B9A09F33669435E7EF1BEAED"
ADDR_A == "0x5aAeb6053F3E94C9b9A09f33669435E7Ef1BeAed"
ADDR_B_LOWER == "0xfb6916095ca1df60bb79ce92ce3ea74c37c5d359"
ADDR_B == "0xfB6916095ca1df60bB79Ce92cE3Ea74c37c5d359"
ADDR_SHORT == "0x5aaeb6053f3e94c9b9a09f33669435e7ef1bea"
ADDR_BADSUM == "0x5aaeb6053F3E94C9b9A09f33669435E7Ef1BeAed"
ADDR_A_NOPREFIX == "5aaeb6053f3e94c9b9a09f33669435e7ef1beaed"

LowerHex == {"a", "b", "c", "d", "e", "f"}
UpperHex == {"A", "B", "C", "D", "E", "F"}
Decimals == {"0", "1", "2", "3", "4", "5", "6", "7", "8", "9"}
HexDigits == Decimals \cup LowerHex \cup UpperHex

LowerOf ==
    ("A" :> "a") @@ ("B" :> "b") @@ ("C" :> "c") @@ ("D" :> "d") @@ ("E" :> "e") @@
    ("F" :> "f")

UpperOf ==
    ("a" :> "A") @@ ("b" :> "B") @@ ("c" :> "C") @@ ("d" :> "D") @@ ("e" :> "E") @@
    ("f" :> "F")

\* toLowerCase of a hex digit
LowerDigit(c) == IF c \in UpperHex THEN LowerOf[c] ELSE c

RECURSIVE HexToLower(_)

\* toLowerCase of a string of hex digits, with or without 0x
HexToLower(s) ==
    IF Len(s) <= 1 THEN LowerDigit(s)
    ELSE With(SubSeq(s, 1, Len(s) \div 2), HexToLower)
             \o With(SubSeq(s, (Len(s) \div 2) + 1, Len(s)), HexToLower)

\* /^[0-9a-fA-F]{40}$/
IsHex40(s) ==
    /\ Len(s) = 40
    /\ \A i \in 1..40 : SubSeq(s, i, i) \in HexDigits

\* /([A-F].*[a-f])|([a-f].*[A-F])/
MixedCase(s) ==
    /\ \E i \in 1..Len(s) : SubSeq(s, i, i) \in LowerHex
    /\ \E i \in 1..Len(s) : SubSeq(s, i, i) \in UpperHex

\* nibble i (from 0) of the digest is 8 or more
HighNibble(hashed, i) ==
    (8 * ((i \div 2) % 8) + (IF i % 2 = 0 THEN 7 ELSE 3)) \in hashed[(i \div 16) + 1]

RECURSIVE Cased(_, _, _)

\* the characters from i (from 0) on, those of the first 40 in upper case where the digest says so
Cased(chars, hashed, i) ==
    IF i >= 40 THEN SubSeq(chars, 41, Len(chars))
    ELSE (IF SubSeq(chars, i + 1, i + 1) \in LowerHex /\ HighNibble(hashed, i)
          THEN UpperOf[SubSeq(chars, i + 1, i + 1)] ELSE SubSeq(chars, i + 1, i + 1))
         \o Cased(chars, hashed, i + 1)

\* getChecksumAddress(address) of an address in lower case: 0x and 40 digits or more
getChecksumAddress(address) ==
    With(SubSeq(address, 3, Len(address)), LAMBDA chars :
    With(keccak256(SubSeq(chars, 1, 40)), LAMBDA hashed : "0x" \o Cased(chars, hashed, 0)))

\* the addresses whose checksummed spelling is computed once
Known ==
    { ADDR_ZERO, ADDR_A_LOWER, ADDR_B_LOWER,
      "0xa0b86991c6218b36c1d19d4a2e9eb0ce3606eb48",
      "0xdac17f958d2ee523a2206206994597c13d831ec7",
      "0x6b175474e89094c44da98b954eedeac495271d0f",
      "0x8ba1f109551bd432803012645ac136ddd64dba72" }

ChecksumOf == [address \in Known |-> getChecksumAddress(address)]

\* getChecksumAddress(address) of an address in any case
Checksummed(address) ==
    With(HexToLower(address), LAMBDA lower :
    IF lower \in Known THEN ChecksumOf[lower] ELSE getChecksumAddress(lower))

Base36 == "0123456789abcdefghijklmnopqrstuvwxyz"
Base36Upper == "0123456789ABCDEFGHIJKLMNOPQRSTUVWXYZ"

IsBase36(c) == \E i \in 1..36 : c \in {SubSeq(Base36, i, i), SubSeq(Base36Upper, i, i)}

\* Base36.indexOf(c.toLowerCase()), which is the number ibanLookup[c.toUpperCase()] spells
Base36Value(c) ==
    (CHOOSE i \in 1..36 : c \in {SubSeq(Base36, i, i), SubSeq(Base36Upper, i, i)}) - 1

\* /^XE[0-9]{2}[0-9A-Za-z]{30,31}$/
IsIcap(s) ==
    /\ Len(s) \in {34, 35}
    /\ SubSeq(s, 1, 2) = "XE"
    /\ \A i \in 3..4 : SubSeq(s, i, i) \in Decimals
    /\ \A i \in 5..Len(s) : IsBase36(SubSeq(s, i, i))

\* the decimal expansion of n with the digits the value v spells appended, modulo 97
Expanded97(n, v) == (IF v < 10 THEN 10 * n + v ELSE 100 * n + v) % 97

RECURSIVE Mod97(_, _, _)

\* the decimal expansion of s from character i on, appended to n, modulo 97
Mod97(s, i, n) ==
    IF i > Len(s) THEN n
    ELSE Mod97(s, i + 1, Expanded97(n, Base36Value(SubSeq(s, i, i))))

\* ibanChecksum(address): the two check digits the rest of the spelling asks for
ibanChecksum(address) ==
    With(98 - Mod97(SubSeq(address, 5, Len(address)) \o "XE00", 1, 0), LAMBDA sum :
    SubSeq(Base36, (sum \div 10) + 1, (sum \div 10) + 1) \o
    SubSeq(Base36, (sum % 10) + 1, (sum % 10) + 1))

\* a BigInt is the sequence of its digits in base 16^6, the least significant first
Limb == 16777216

RECURSIVE Times36Plus(_, _)

\* result * 36n + carry
Times36Plus(n, carry) ==
    IF n = <<>> THEN IF carry = 0 THEN <<>> ELSE <<carry>>
    ELSE <<(36 * Head(n) + carry) % Limb>> \o
         Times36Plus(Tail(n), (36 * Head(n) + carry) \div Limb)

RECURSIVE fromBase36(_, _, _)

\* fromBase36(value) from character i on, n the number read so far
fromBase36(value, i, n) ==
    IF i > Len(value) THEN n
    ELSE With(Times36Plus(n, Base36Value(SubSeq(value, i, i))), LAMBDA next :
         fromBase36(value, i + 1, next))

RECURSIVE HexOf(_, _)

\* the last k hex digits of the number d
HexOf(d, k) ==
    IF k = 0 THEN "" ELSE HexOf(d \div 16, k - 1) \o SubSeq(Base36, (d % 16) + 1, (d % 16) + 1)

RECURSIVE HexDigitsOf(_)

\* the hex digits of d, none for 0
HexDigitsOf(d) ==
    IF d = 0 THEN "" ELSE HexDigitsOf(d \div 16) \o SubSeq(Base36, (d % 16) + 1, (d % 16) + 1)

RECURSIVE Hex(_)

\* n.toString(16) of a BigInt that is not 0
Hex(n) ==
    IF Len(n) = 1 THEN HexDigitsOf(n[1])
    ELSE Hex(Tail(n)) \o HexOf(Head(n), 6)

\* while (result.length < 40) result = "0" + result
PadStart40(s) ==
    IF Len(s) >= 40 THEN s
    ELSE SubSeq("0000000000000000000000000000000000000000", 1, 40 - Len(s)) \o s

\* the address of an ICAP spelling
fromIcap(address) ==
    With(fromBase36(address, 5, <<>>), LAMBDA n :
    Checksummed("0x" \o PadStart40(IF n = <<>> THEN "0" ELSE Hex(n))))

\* ethers.getAddress(w): the checksummed form, or THROWS
getAddress(w) ==
    IF IsHex40(IF StartsWith(w, "0x") THEN SubSeq(w, 3, Len(w)) ELSE w)
    THEN With(IF StartsWith(w, "0x") THEN w ELSE "0x" \o w, LAMBDA address :
         With(Checksummed(address), LAMBDA result :
         IF MixedCase(address) /\ result # address THEN THROWS ELSE result))
    ELSE IF IsIcap(w)
    THEN IF SubSeq(w, 3, 4) # ibanChecksum(w) THEN THROWS ELSE fromIcap(w)
    ELSE THROWS

(***************************************************************************)
(* Numbers.  A balance is the decimal mant * 10^exp with mant not          *)
(* divisible by 10 (0 is <<0, 0>>); a raw on-chain integer is written the  *)
(* same way.                                                               *)
(***************************************************************************)
RECURSIVE Norm(_, _)
Norm(m, e) ==
    IF m = 0 THEN [mant |-> 0, exp |-> 0]
    ELSE IF m % 10 = 0 THEN Norm(m \div 10, e + 1)
    ELSE [mant |-> m, exp |-> e]

\* ethers.formatUnits rejects a unit above 80 ("decimals too large")
UnitTooLarge(decimals) == decimals > 80

\* Number(ethers.formatUnits(raw, decimals)) = raw / 10^decimals
formatUnits(raw, decimals) == Norm(raw.mant, raw.exp - decimals)

\* Number(ethers.formatEther(raw))
formatEther(raw) == formatUnits(raw, 18)

(***************************************************************************)
(* Numbers as text.  The digits are computed on strings, so that a number  *)
(* of any size is written in full.                                         *)
(***************************************************************************)
Digit == <<"0", "1", "2", "3", "4", "5", "6", "7", "8", "9">>
DigitVal(c) == CHOOSE d \in 0..9 : Digit[d + 1] = c

RECURSIVE DigitsOf(_), Zeros(_), Increment(_)

\* String(n) of a natural number
DigitsOf(n) == IF n < 10 THEN Digit[n + 1] ELSE DigitsOf(n \div 10) \o Digit[(n % 10) + 1]

\* e.message when formatUnits rejects the decimals: the message, then the
\* argument, its value, the code and the version of the library
UnitErrMsg(decimals) ==
    "invalid FixedNumber decimals (too large) (argument=\"format.decimals\", value="
        \o DigitsOf(decimals) \o ", code=INVALID_ARGUMENT, version=6.x)"

Zeros(k) == IF k <= 0 THEN "" ELSE "0" \o Zeros(k - 1)

\* the digit string s plus one in the last place
Increment(s) ==
    IF s = "" THEN "1"
    ELSE LET last == SubSeq(s, Len(s), Len(s))
             init == SubSeq(s, 1, Len(s) - 1) IN
         IF last = "9" THEN Increment(init) \o "0"
         ELSE init \o Digit[DigitVal(last) + 2]

\* the number x rounded to digits fractional digits, half up: its integer
\* digits and its fractional digits
Rounded(x, digits) ==
    IF x.exp >= 0
    THEN [int |-> IF x.mant = 0 THEN "0" ELSE DigitsOf(x.mant) \o Zeros(x.exp),
          frac |-> Zeros(digits)]
    ELSE LET k == 0 - x.exp
             s == DigitsOf(x.mant)
             padded == Zeros(k + 1 - Len(s)) \o s
             ip == SubSeq(padded, 1, Len(padded) - k)
             fp == SubSeq(padded, Len(padded) - k + 1, Len(padded)) IN
         IF k <= digits THEN [int |-> ip, frac |-> fp \o Zeros(digits - k)]
         ELSE LET kept == ip \o SubSeq(fp, 1, digits)
                  up == DigitVal(SubSeq(fp, digits + 1, digits + 1)) >= 5
                  all == IF up THEN Increment(kept) ELSE kept IN
              [int |-> SubSeq(all, 1, Len(all) - digits),
               frac |-> SubSeq(all, Len(all) - digits + 1, Len(all))]

(***************************************************************************)
(* Natural numbers of any size, for the exact value of a double: the       *)
(* sequence of the digits in base 10^9, lowest first, without leading zero *)
(* (0 is the empty sequence).                                              *)
(***************************************************************************)
Base == 1000000000

BigOfInt(n) ==
    IF n = 0 THEN <<>> ELSE IF n < Base THEN <<n>> ELSE <<n % Base, n \div Base>>

RECURSIVE Stripped(_), BigAddCarry(_, _, _), BigSubBorrow(_, _, _), BigDigits(_)

\* without the zeros at the high end
Stripped(a) ==
    IF a # <<>> /\ a[Len(a)] = 0 THEN Stripped(SubSeq(a, 1, Len(a) - 1)) ELSE a

BigAddCarry(a, b, carry) ==
    IF a = <<>> /\ b = <<>> THEN (IF carry = 0 THEN <<>> ELSE <<carry>>)
    ELSE LET x == (IF a = <<>> THEN 0 ELSE Head(a)) + (IF b = <<>> THEN 0 ELSE Head(b))
                      + carry
         IN  <<x % Base>> \o BigAddCarry(IF a = <<>> THEN a ELSE Tail(a),
                                          IF b = <<>> THEN b ELSE Tail(b), x \div Base)

BigAdd(a, b) == BigAddCarry(a, b, 0)

\* a - b for a >= b, before the zeros at the high end are stripped
BigSubBorrow(a, b, borrow) ==
    IF a = <<>> THEN <<>>
    ELSE LET x == Head(a) - (IF b = <<>> THEN 0 ELSE Head(b)) - borrow
         IN  <<IF x < 0 THEN x + Base ELSE x>>
                 \o BigSubBorrow(Tail(a), IF b = <<>> THEN b ELSE Tail(b),
                                  IF x < 0 THEN 1 ELSE 0)

BigSub(a, b) == Stripped(BigSubBorrow(a, b, 0))

BigLess(a, b) ==
    IF Len(a) # Len(b) THEN Len(a) < Len(b)
    ELSE \E i \in 1..Len(a) : a[i] < b[i] /\ \A j \in (i + 1)..Len(a) : a[j] = b[j]

BigTwice(a) == BigAdd(a, a)

\* a divided by 2, rounded down
BigHalf(a) ==
    Stripped([i \in 1..Len(a) |->
                 (a[i] + IF i < Len(a) /\ a[i + 1] % 2 = 1 THEN Base ELSE 0) \div 2])

BigTimes10(a) == BigAdd(BigTwice(BigTwice(BigTwice(a))), BigTwice(a))

BigTimes256(a) ==
    BigTwice(BigTwice(BigTwice(BigTwice(BigTwice(BigTwice(BigTwice(BigTwice(a))))))))

\* a divided by 256, rounded down
BigOver256(a) ==
    BigHalf(BigHalf(BigHalf(BigHalf(BigHalf(BigHalf(BigHalf(BigHalf(a))))))))

RECURSIVE BigTimes10s(_, _), BigTwices(_, _), BigHalves(_, _)

\* a * 10^k
BigTimes10s(a, k) == IF a = <<>> \/ k <= 0 THEN a ELSE BigTimes10s(BigTimes10(a), k - 1)

\* a * 2^k
BigTwices(a, k) ==
    IF a = <<>> \/ k <= 0 THEN a
    ELSE IF k >= 8 THEN BigTwices(BigTimes256(a), k - 8)
    ELSE BigTwices(BigTwice(a), k - 1)

\* a divided by 2^k, rounded down
BigHalves(a, k) ==
    IF a = <<>> \/ k <= 0 THEN a
    ELSE IF k >= 8 THEN BigHalves(BigOver256(a), k - 8)
    ELSE BigHalves(BigHalf(a), k - 1)

\* the decimal digits
BigDigits(a) ==
    IF a = <<>> THEN "0"
    ELSE IF Len(a) = 1 THEN DigitsOf(a[1])
    ELSE BigDigits(Tail(a)) \o Zeros(9 - Len(DigitsOf(Head(a)))) \o DigitsOf(Head(a))

(***************************************************************************)
(* Number(text): the double nearest to the decimal x = n / d, ties to the  *)
(* even significand.  A double is sig / 2^scale with sig below 2^53 (for a *)
(* negative scale that is sig * 2^-scale); subnormal and infinite values   *)
(* are out of the range of balances.                                       *)
(***************************************************************************)
RECURSIVE ScaledUp(_, _, _), ScaledDown(_, _, _), DividedBits(_, _)

\* n doubled until n >= t, in steps of 2^16 and then of 2, and how many times
ScaledUp(n, t, scale) ==
    IF BigLess(BigTwices(n, 16), t) THEN ScaledUp(BigTwices(n, 16), t, scale + 16)
    ELSE IF BigLess(n, t) THEN ScaledUp(BigTwice(n), t, scale + 1)
    ELSE [n |-> n, scale |-> scale]

\* t doubled until n < 2 * t, in steps of 2^16 and then of 2, and how many times
ScaledDown(n, t, scale) ==
    IF ~BigLess(n, BigTwices(t, 17)) THEN ScaledDown(n, BigTwices(t, 16), scale + 16)
    ELSE IF ~BigLess(n, BigTwice(t)) THEN ScaledDown(n, BigTwice(t), scale + 1)
    ELSE [t |-> t, scale |-> scale]

\* quotient and remainder of n by t, bit by bit
DividedBits(n, t) ==
    IF BigLess(n, t) THEN [q |-> <<>>, r |-> n]
    ELSE With(DividedBits(n, BigTwice(t)), LAMBDA by2 :
         IF BigLess(by2.r, t) THEN [q |-> BigTwice(by2.q), r |-> by2.r]
         ELSE [q |-> BigAdd(BigTwice(by2.q), <<1>>), r |-> BigSub(by2.r, t)])

\* quotient and remainder of n by t for n < t * 2^56, 14 bits at a time
Divided(n, t) ==
    With(DividedBits(n, BigTwices(t, 42)), LAMBDA a :
    With(DividedBits(a.r, BigTwices(t, 28)), LAMBDA b :
    With(DividedBits(b.r, BigTwices(t, 14)), LAMBDA c :
    With(DividedBits(c.r, t), LAMBDA e :
    [q |-> BigAdd(BigTwices(BigAdd(BigTwices(BigAdd(BigTwices(a.q, 14), b.q), 14),
                                   c.q), 14), e.q),
     r |-> e.r]))))

\* the double nearest to the decimal x: the quotient of the division by den,
\* rounded to the nearest integer, to the even one of two
Nearest(x) ==
    IF x.mant = 0 THEN [sig |-> <<>>, scale |-> 0]
    ELSE With(BigTimes10s(BigOfInt(x.mant), x.exp), LAMBDA n :
         With(BigTwices(BigTimes10s(<<1>>, 0 - x.exp), 52), LAMBDA t :
         With(ScaledUp(n, t, 0), LAMBDA up :
         With(ScaledDown(up.n, t, 0), LAMBDA down :
         With(BigHalves(down.t, 52), LAMBDA den :
         With(Divided(up.n, den), LAMBDA div :
         With(BigTwice(div.r), LAMBDA twice :
         [sig |-> IF BigLess(den, twice) \/ (twice = den /\ Head(div.q) % 2 = 1)
                  THEN BigAdd(div.q, <<1>>) ELSE div.q,
          scale |-> up.scale - down.scale])))))))

\* the balances of the rows that are exported below, whose doubles are
\* computed once instead of at every step that formats them
Tabled ==
    { formatEther([mant |-> 123456789, exp |-> 13]),
      formatEther([mant |-> 1, exp |-> 8]),
      formatEther([mant |-> 15, exp |-> 13]),
      formatUnits([mant |-> 3125, exp |-> 1], 6),
      formatUnits([mant |-> 15, exp |-> 20], 0),
      formatUnits([mant |-> 1, exp |-> 30], 0),
      formatUnits([mant |-> 1234567891, exp |-> 10], 0) }

Doubles == [x \in Tabled |-> Nearest(x)]

\* Number(text) of the decimal x
Double(x) == IF x \in Tabled THEN Doubles[x] ELSE Nearest(x)

\* the double is 10^21 or more, from where on toFixed gives up fixed notation
AtLeast1e21(x) ==
    With(Double(x), LAMBDA v :
    v.scale <= 0 /\ ~BigLess(BigTwices(v.sig, 0 - v.scale), BigTimes10s(<<1>>, 21)))

\* String(x) for x >= 10^21: exponential notation with the shortest digits
\* that give the double back, which for a decimal of up to 15 digits are its own
Exponential(x) ==
    LET s == DigitsOf(x.mant) IN
    SubSeq(s, 1, 1) \o (IF Len(s) > 1 THEN "." \o SubSeq(s, 2, Len(s)) ELSE "")
        \o "e+" \o DigitsOf(Len(s) + x.exp - 1)

\* the exact value of the double of x in fixed notation: the integer n with
\* n / 10^digits nearest to it, the larger one of two, written with a point
FixedPoint(x, digits) ==
    With(Double(x), LAMBDA v :
    With(BigDigits(IF v.scale <= 0
                   THEN BigTimes10s(BigTwices(v.sig, 0 - v.scale), digits)
                   ELSE BigHalves(BigAdd(BigTwice(BigTimes10s(v.sig, digits)),
                                         BigTwices(<<1>>, v.scale)), v.scale + 1)),
         LAMBDA s :
    With(Zeros(digits + 1 - Len(s)) \o s, LAMBDA padded :
    SubSeq(padded, 1, Len(padded) - digits) \o (IF digits = 0 THEN "" ELSE ".")
        \o SubSeq(padded, Len(padded) - digits + 1, Len(padded)))))

\* Number(x).toFixed(digits)
toFixed(x, digits) == IF AtLeast1e21(x) THEN Exponential(x) ELSE FixedPoint(x, digits)

(***************************************************************************)
(* toLocaleString(undefined, ...) formats for the default locale of the    *)
(* host.  A locale is its decimal separator, its grouping separator, the   *)
(* size of the lowest group and of the groups above it, and the number of  *)
(* digits there must be above the lowest group before it groups at all.    *)
(* Locales that write other digits than 0-9, or whose grouping separator   *)
(* is not an ASCII character (fr-FR, ru-RU, de-CH), are not among them.    *)
(***************************************************************************)
EN_US == [tag |-> "en-US", decimal |-> ".", group |-> ",", first |-> 3, rest |-> 3,
          least |-> 1]
DE_DE == [tag |-> "de-DE", decimal |-> ",", group |-> ".", first |-> 3, rest |-> 3,
          least |-> 1]
EN_IN == [tag |-> "en-IN", decimal |-> ".", group |-> ",", first |-> 3, rest |-> 2,
          least |-> 1]
ES_ES == [tag |-> "es-ES", decimal |-> ",", group |-> ".", first |-> 3, rest |-> 3,
          least |-> 2]

Locales == {EN_US, DE_DE, EN_IN, ES_ES}

RECURSIVE GroupsOf(_, _, _)
\* the digits s in groups of size digits from the right, with sep between them
GroupsOf(s, size, sep) ==
    IF Len(s) <= size THEN s
    ELSE GroupsOf(SubSeq(s, 1, Len(s) - size), size, sep) \o sep
             \o SubSeq(s, Len(s) - size + 1, Len(s))

\* the integer digits s grouped as the locale groups them
Group(s, locale) ==
    IF Len(s) < locale.first + locale.least THEN s
    ELSE GroupsOf(SubSeq(s, 1, Len(s) - locale.first), locale.rest, locale.group)
             \o locale.group \o SubSeq(s, Len(s) - locale.first + 1, Len(s))

\* mutant: no fixed fraction digits, exponent notation for large values
fmt_Default(v, digits, locale) ==
    IF v = Null THEN "-"
    ELSE IF AtLeast1e21(v[1]) THEN Exponential(v[1])
    ELSE Group(Rounded(v[1], 3).int, locale) \o locale.decimal \o Rounded(v[1], 3).frac

\* fmt(v, digits) on a host of the locale: "-" for null, else
\* n.toLocaleString with exactly digits fractional digits, which rounds the
\* shortest decimal of n half up and writes no decimal separator when there
\* are no fractional digits
fmt(v, digits, locale) ==
    IF v = Null THEN "-"
    ELSE Group(Rounded(v[1], digits).int, locale)
             \o (IF digits = 0 THEN "" ELSE locale.decimal)
             \o Rounded(v[1], digits).frac

(***************************************************************************)
(* The network.  A call that returns gives the value below; a call that    *)
(* fails rejects with one of ErrMsgs.                                      *)
(***************************************************************************)
ErrMsgs == {"timeout"}

\* provider.getBalance(checksum): wei
NativeRawOf(rpc, addr) ==
    IF addr = ADDR_ZERO THEN [mant |-> 0, exp |-> 0] ELSE [mant |-> 15, exp |-> 17]

\* c.balanceOf(checksum): smallest units of the token
TokenRawOf(rpc, contract, addr) == [mant |-> 25, exp |-> 5]

\* c.decimals(): what the contract answers, 18 for DAI, 6 for USDC and USDT
DecimalsOf(contract) ==
    IF contract = "0x6B175474E89094C44Da98b954EedeAC495271d0F" THEN 18 ELSE 6

\* c.symbol()
SymbolOf(contract) ==
    IF contract = "0x6B175474E89094C44Da98b954EedeAC495271d0F" THEN "DAI" ELSE "USDC"

(***************************************************************************)
(* The rows fetchBalancesOnce pushes.  A row has exactly the keys the code *)
(* writes.                                                                 *)
(***************************************************************************)
ConnectErrorRow(ch, msg) ==
    [chain |-> ch.id, error |-> "RPC connect error: " \o msg]

InvalidAddressRow(ch, w) ==
    [chain |-> ch.id, wallet |-> w, asset |-> OrElse(ch.symbol, "native"),
     contract |-> "native", balance |-> Null, error |-> "invalid address"]

NativeRow(ch, checksum, nativeBal) ==
    [chain |-> ch.id, wallet |-> checksum, asset |-> OrElse(ch.symbol, "native"),
     contract |-> "native", balance |-> Some(formatEther(nativeBal))]

\* mutant: the error row keeps a balance of 0
NativeErrorRow_ZeroBalance(ch, checksum, msg) ==
    [chain |-> ch.id, wallet |-> checksum, asset |-> OrElse(ch.symbol, "native"),
     contract |-> "native", balance |-> Some([mant |-> 0, exp |-> 0]),
     error |-> "native error: " \o msg]

NativeErrorRow(ch, checksum, msg) ==
    [chain |-> ch.id, wallet |-> checksum, asset |-> OrElse(ch.symbol, "native"),
     contract |-> "native", balance |-> Null, error |-> "native error: " \o msg]

TokenRow(ch, checksum, t, symbol, decimals, raw) ==
    [chain |-> ch.id, wallet |-> checksum, asset |-> symbol,
     contract |-> t.address, balance |-> Some(formatUnits(raw, decimals)),
     decimals |-> decimals]

TokenErrorRow(ch, checksum, t, msg) ==
    [chain |-> ch.id, wallet |-> checksum,
     asset |-> OrElse(t.symbol, Slice(t.address, 6)),
     contract |-> t.address, balance |-> Null, error |-> "token error: " \o msg]

(***************************************************************************)
(* One invocation of fetchBalancesOnce.  It holds the chains, wallets and  *)
(* tokens of the render whose closure was called, the loop positions ci,   *)
(* wi, ti, the call it awaits, its locals and its result list out.         *)
(* outBy and calls are history: from which pass and loop position each row *)
(* was pushed, which calls have settled and how, how many calls the pass   *)
(* has issued.                                                             *)
(***************************************************************************)
NewPass(id, c, w, t) ==
    [id |-> id, chains |-> c, wallets |-> w, tokens |-> t,
     ci |-> 0, wi |-> 0, ti |-> 0, await |-> "none",
     checksum |-> "", decimals |-> 0, symbol |-> "",
     out |-> <<>>, outBy |-> <<>>, calls |-> <<>>, faults |-> 0,
     issued |-> 0, thrown |-> Null]

\* mutant: out.unshift(row)
Push_Front(p, row) ==
    [p EXCEPT !.out = <<row>> \o @,
              !.outBy = <<[pass |-> p.id, ci |-> p.ci, wi |-> p.wi, ti |-> p.ti]>>
                        \o @]

\* out.push(row)
Push(p, row) ==
    [p EXCEPT !.out = Append(@, row),
              !.outBy = Append(@, [pass |-> p.id, ci |-> p.ci, wi |-> p.wi,
                                   ti |-> p.ti])]

\* mutant: the call is issued together with the one that follows it
Await_Parallel(p, op) == [p EXCEPT !.await = op, !.issued = @ + 2]

\* the pass issues a network call and suspends on it
Await(p, op) == [p EXCEPT !.await = op, !.issued = @ + 1]

\* the awaited call has settled: it returned (ok) or it rejected
Settled(p, ok) ==
    [p EXCEPT !.calls = Append(@, [op |-> p.await, ci |-> p.ci, wi |-> p.wi,
                                   ti |-> p.ti, ok |-> ok]),
              !.faults = IF ok THEN @ ELSE @ + 1]

\* tokens[ch.id] || []
TokenList(t, id) == IF id \in DOMAIN t THEN t[id] ELSE <<>>

\* the property names every object literal inherits from Object.prototype:
\* tokens[id] is then a function (or Object.prototype) and not undefined
InheritedKeys ==
    {"constructor", "hasOwnProperty", "isPrototypeOf", "propertyIsEnumerable",
     "toLocaleString", "toString", "valueOf", "__defineGetter__", "__defineSetter__",
     "__lookupGetter__", "__lookupSetter__", "__proto__"}

\* tokens[id] || [] is a value for (const t of tlist) cannot iterate
NotIterable(t, id) == id \notin DOMAIN t /\ id \in InheritedKeys

\* e.message of the TypeError of for...of over it
NotIterableMsg == "tlist is not iterable"

\* an exception outside the per-unit handlers leaves the loops
Throw(p, msg) == [p EXCEPT !.thrown = Some(msg), !.await = "done"]

CurChain(p) == p.chains[p.ci]
CurToken(p) == TokenList(p.tokens, CurChain(p).id)[p.ti]

\* let symbol = t.symbol || ""; if (!symbol) symbol = await c.symbol(); then balanceOf
ResolveSymbol(p) ==
    LET t == CurToken(p) IN
    IF t.symbol = "" THEN Await(p, "symbol")
    ELSE Await([p EXCEPT !.symbol = t.symbol], "balanceOf")

\* mutant: if (!decimals), an override of 0 counts as missing
ResolveDecimals_FalsyOverride(p) ==
    LET t == CurToken(p) IN
    IF t.decimals = Null \/ t.decimals = Some(0) THEN Await(p, "decimals")
    ELSE ResolveSymbol([p EXCEPT !.decimals = t.decimals[1]])

\* let decimals = t.decimals; if (decimals == null) decimals = await c.decimals()
ResolveDecimals(p) ==
    LET t == CurToken(p) IN
    IF t.decimals = Null THEN Await(p, "decimals")
    ELSE ResolveSymbol([p EXCEPT !.decimals = t.decimals[1]])

RECURSIVE ChainLoop(_, _), WalletLoop(_, _), TokenLoop(_, _)

\* mutant: a token without an address is fetched like any other
SkipToken_Never(t) == FALSE

\* if (!t.address) continue
SkipToken(t) == t.address = ""

\* for (const t of tlist), from the token at position ti
TokenLoop(p, ti) ==
    LET tlist == TokenList(p.tokens, CurChain(p).id) IN
    IF ti > Len(tlist) THEN WalletLoop(p, p.wi + 1)
    ELSE IF SkipToken(tlist[ti]) THEN TokenLoop(p, ti + 1)
    ELSE ResolveDecimals([p EXCEPT !.ti = ti])

\* mutant: the catch pushes its row and forgets to continue
InvalidWallet_FallsThrough(p, wi, w) ==
    Await(Push([p EXCEPT !.wi = wi, !.ti = 0, !.checksum = w],
               InvalidAddressRow(CurChain(p), w)), "native")

\* catch of getAddress(w): the invalid-address row, then continue
InvalidWallet(p, wi, w) ==
    WalletLoop(Push([p EXCEPT !.wi = wi, !.ti = 0],
                    InvalidAddressRow(CurChain(p), w)), wi + 1)

\* const tlist = tokens[ch.id] || []; for (const t of tlist)
TokensOf(p) ==
    IF NotIterable(p.tokens, CurChain(p).id) THEN Throw(p, NotIterableMsg)
    ELSE TokenLoop(p, 1)

\* for (const w of wallets), from the wallet at position wi
WalletLoop(p, wi) ==
    IF wi > Len(p.wallets) THEN ChainLoop(p, p.ci + 1)
    ELSE IF p.wallets[wi] = "" THEN WalletLoop(p, wi + 1)
    ELSE With(getAddress(p.wallets[wi]), LAMBDA checksum :
         IF checksum = THROWS THEN InvalidWallet(p, wi, p.wallets[wi])
         ELSE Await([p EXCEPT !.wi = wi, !.ti = 0, !.checksum = checksum],
                    "native"))

\* mutant: only a chain without rpc is skipped
SkipChain_OnlyNoRpc(ch) == ch.rpc = ""

\* if (!ch.rpc || !ch.id) continue
SkipChain(ch) == ch.rpc = "" \/ ch.id = ""

\* for (const ch of chains), from the chain at position ci
ChainLoop(p, ci) ==
    IF ci > Len(p.chains) THEN [p EXCEPT !.await = "done"]
    ELSE LET ch == p.chains[ci] IN
         IF SkipChain(ch) THEN ChainLoop(p, ci + 1)
         ELSE Await([p EXCEPT !.ci = ci, !.wi = 0, !.ti = 0], "probe")

(***************************************************************************)
(* The awaited call returns: the pass runs on to its next await or to its  *)
(* end.                                                                    *)
(***************************************************************************)
\* await provider.getBlockNumber() returned
ProbeOk(p) == WalletLoop(p, 1)

\* await provider.getBalance(checksum) returned
NativeOk(p) ==
    TokensOf(Push(p, NativeRow(CurChain(p), p.checksum,
                               NativeRawOf(CurChain(p).rpc, p.checksum))))

\* await c.decimals() returned
DecimalsOk(p) ==
    ResolveSymbol([p EXCEPT !.decimals = DecimalsOf(CurToken(p).address)])

\* await c.symbol() returned
SymbolOk(p) ==
    Await([p EXCEPT !.symbol = SymbolOf(CurToken(p).address)], "balanceOf")

\* mutant: the token block has no catch, the rejection leaves the loops
BalanceOfFailed_Throws(p, msg) == [p EXCEPT !.thrown = Some(msg), !.await = "done"]

\* catch of the token block: the error row, then the next token
BalanceOfFailed(p, msg) ==
    TokenLoop(Push(p, TokenErrorRow(CurChain(p), p.checksum, CurToken(p), msg)),
              p.ti + 1)

\* await c.balanceOf(checksum) returned: the conversion, which throws into the
\* catch of the token block when formatUnits rejects the decimals
BalanceOfOk(p) ==
    IF UnitTooLarge(p.decimals) THEN BalanceOfFailed(p, UnitErrMsg(p.decimals))
    ELSE TokenLoop(Push(p, TokenRow(CurChain(p), p.checksum, CurToken(p), p.symbol,
                                    p.decimals,
                                    TokenRawOf(CurChain(p).rpc, CurToken(p).address,
                                               p.checksum))), p.ti + 1)

OnReturn(p0) ==
    With(Settled(p0, TRUE), LAMBDA p :
    CASE p.await = "probe" -> ProbeOk(p)
      [] p.await = "native" -> NativeOk(p)
      [] p.await = "decimals" -> DecimalsOk(p)
      [] p.await = "symbol" -> SymbolOk(p)
      [] p.await = "balanceOf" -> BalanceOfOk(p))

(***************************************************************************)
(* The awaited call rejects with e.message = msg: the catch around it.     *)
(***************************************************************************)
\* mutant: the catch pushes its row and forgets to continue
ProbeFailed_FallsThrough(p, msg) ==
    WalletLoop(Push(p, ConnectErrorRow(CurChain(p), msg)), 1)

\* mutant: the catch probes the same chain again
ProbeFailed_Retries(p, msg) == Await(p, "probe")

\* catch of the probe: the chain-level row, then continue with the next chain
ProbeFailed(p, msg) ==
    ChainLoop(Push(p, ConnectErrorRow(CurChain(p), msg)), p.ci + 1)

\* mutant: a failed native fetch skips the wallet's tokens
NativeFailed_SkipsTokens(p, msg) ==
    WalletLoop(Push(p, NativeErrorRow(CurChain(p), p.checksum, msg)), p.wi + 1)

\* catch of the native fetch: the error row, then the tokens
NativeFailed(p, msg) ==
    TokensOf(Push(p, NativeErrorRow(CurChain(p), p.checksum, msg)))

\* mutant: the catch is empty, decimals keeps the value of the fetch before
DecimalsFailed_KeepsLast(p, msg) == ResolveSymbol(p)

\* catch of c.decimals()
DecimalsFailed(p, msg) == ResolveSymbol([p EXCEPT !.decimals = 18])

\* catch of c.symbol()
SymbolFailed(p, msg) ==
    Await([p EXCEPT !.symbol = Slice(CurToken(p).address, 6)], "balanceOf")

OnFail(p0, msg) ==
    With(Settled(p0, FALSE), LAMBDA p :
    CASE p.await = "probe" -> ProbeFailed(p, msg)
      [] p.await = "native" -> NativeFailed(p, msg)
      [] p.await = "decimals" -> DecimalsFailed(p, msg)
      [] p.await = "symbol" -> SymbolFailed(p, msg)
      [] p.await = "balanceOf" -> BalanceOfFailed(p, msg))

\* mutant: setRows((prev) => [...prev, ...out])
Finish_Appends(p, rest, err) ==
    /\ IF p.thrown = Null
       THEN /\ rows' = rows \o p.out
            /\ rowsBy' = rowsBy \o p.outBy
            /\ lastUpdated' = Some(now)
            /\ error' = err
       ELSE /\ error' = p.thrown
            /\ UNCHANGED <<rows, rowsBy, lastUpdated>>
    /\ now' = now + 1
    /\ loading' = FALSE
    /\ passes' = rest
    /\ done' = Some(p)

\* mutant: no finally, loading is left as it was
Finish_NoFinally(p, rest, err) ==
    /\ IF p.thrown = Null
       THEN /\ rows' = p.out
            /\ rowsBy' = p.outBy
            /\ lastUpdated' = Some(now)
            /\ error' = err
       ELSE /\ error' = p.thrown
            /\ UNCHANGED <<rows, rowsBy, lastUpdated>>
    /\ now' = now + 1
    /\ UNCHANGED loading
    /\ passes' = rest
    /\ done' = Some(p)

(***************************************************************************)
(* The end of fetchBalancesOnce: setRows(out) and setLastUpdated, or the   *)
(* pass-level catch, then finally setLoading(false).  rest is the list of  *)
(* the passes still in flight, err the top-level error before this step.   *)
(* The setters of a component that is no longer on the page set nothing.   *)
(***************************************************************************)
Finish(p, rest, err) ==
    /\ IF crashed
       THEN UNCHANGED <<rows, rowsBy, lastUpdated, error, loading, done>>
       ELSE /\ IF p.thrown = Null
               THEN /\ rows' = p.out
                    /\ rowsBy' = p.outBy
                    /\ lastUpdated' = Some(now)
                    /\ error' = err
               ELSE /\ error' = p.thrown
                    /\ UNCHANGED <<rows, rowsBy, lastUpdated>>
            /\ loading' = FALSE
            /\ done' = Some(p)
    /\ now' = now + 1
    /\ passes' = rest

\* passes without the one at position i
Without(i) == SubSeq(passes, 1, i - 1) \o SubSeq(passes, i + 1, Len(passes))

(***************************************************************************)
(* A call of fetchBalancesOnce with the chains, wallets and tokens of its  *)
(* closure: setError(null), setLoading(true), then the loops up to the     *)
(* first await.  With no chain to probe it runs to its end at once.        *)
(***************************************************************************)
fetchBalancesOnce(c, w, t) ==
    /\ Len(passes) < MaxPasses
    /\ nextId < MaxStarts
    /\ nextId' = nextId + 1
    /\ \E p \in {ChainLoop(NewPass(nextId + 1, c, w, t), 1)} :
         IF p.await = "done"
         THEN Finish(p, passes, Null)
         ELSE /\ error' = Null
              /\ loading' = TRUE
              /\ passes' = Append(passes, p)
              /\ UNCHANGED <<rows, rowsBy, lastUpdated, now, done>>

\* mutant: the rows pushed so far are shown at every await
Suspend_ShowsPartial(i, p) ==
    /\ passes' = [passes EXCEPT ![i] = p]
    /\ rows' = p.out
    /\ rowsBy' = p.outBy
    /\ UNCHANGED <<lastUpdated, now, done, loading, error>>

\* pass i runs to its next await as p: no state of the component is set
Suspend(i, p) ==
    /\ passes' = [passes EXCEPT ![i] = p]
    /\ UNCHANGED <<rows, rowsBy, lastUpdated, now, done, loading, error>>

\* the network call pass i awaits returns
CallReturns(i) ==
    /\ \E p \in {OnReturn(passes[i])} :
         IF p.await = "done" THEN Finish(p, Without(i), error) ELSE Suspend(i, p)
    /\ UNCHANGED <<config, intervalSec, running, timerRef, timers, nextId,
                   imported, output, reads, files, edits, crashed>>

\* the network call pass i awaits fails
CallFails(i) ==
    /\ passes[i].faults < MaxFaults
    /\ \E msg \in ErrMsgs : \E p \in {OnFail(passes[i], msg)} :
         IF p.await = "done" THEN Finish(p, Without(i), error) ELSE Suspend(i, p)
    /\ UNCHANGED <<config, intervalSec, running, timerRef, timers, nextId,
                   imported, output, reads, files, edits, crashed>>

(***************************************************************************)
(* Import of wallets from a file.  A sheet is the grid of its cells as     *)
(* sheet_to_json returns it, a list of rows of strings.  The string of a   *)
(* cell is the sequence of its UTF-16 code units, so that every character  *)
(* a file can hold is told from every other.                               *)
(***************************************************************************)
\* the digits and letters, the only characters of an address
Alnum == "0123456789ABCDEFGHIJKLMNOPQRSTUVWXYZabcdefghijklmnopqrstuvwxyz"

\* charCodeAt of the character at place k of Alnum
AlnumCode(k) == IF k <= 10 THEN 47 + k ELSE IF k <= 36 THEN 54 + k ELSE 60 + k

IsAlnum(units) ==
    \A i \in 1..Len(units) : units[i] \in (48..57) \cup (65..90) \cup (97..122)

\* the code units of a string of digits and letters
Units(s) ==
    SubSeq([i \in 1..Len(s) |->
               AlnumCode(CHOOSE k \in 1..Len(Alnum) : SubSeq(Alnum, k, k) = SubSeq(s, i, i))],
           1, Len(s))

\* the place in Alnum of the character with code unit u
AlnumPlace(u) == IF u <= 57 THEN u - 47 ELSE IF u <= 90 THEN u - 54 ELSE u - 60

RECURSIVE Text(_)

\* the string of code units that are all of digits and letters
Text(units) ==
    IF Len(units) = 0 THEN ""
    ELSE SubSeq(Alnum, AlnumPlace(units[1]), AlnumPlace(units[1]))
             \o Text(SubSeq(units, 2, Len(units)))

\* the code units String.prototype.trim strips, WhiteSpace and LineTerminator
\* of ECMAScript: tab, line feed, vertical tab, form feed, carriage return,
\* space, no-break space, ogham space mark, en quad to hair space, line and
\* paragraph separator, narrow no-break space, medium mathematical space,
\* ideographic space, byte order mark
WhiteSpace ==
    {9, 10, 11, 12, 13, 32, 160, 5760, 8232, 8233, 8239, 8287, 12288, 65279}
        \cup (8192..8202)

RECURSIVE TrimStart(_), TrimEnd(_)
TrimStart(s) ==
    IF Len(s) > 0 /\ s[1] \in WhiteSpace THEN TrimStart(SubSeq(s, 2, Len(s))) ELSE s
TrimEnd(s) ==
    IF Len(s) > 0 /\ s[Len(s)] \in WhiteSpace THEN TrimEnd(SubSeq(s, 1, Len(s) - 1)) ELSE s

\* s.trim()
Trim(s) == TrimEnd(TrimStart(s))

\* mutant: the shape test is dropped
isProbablyAddress_Always(v) == TRUE

\* !v is true of the empty string; "0x" is the code units 48, 120
isProbablyAddress(v) ==
    IF Len(v) = 0 THEN FALSE
    ELSE With(Trim(v), LAMBDA s : Len(s) = 42 /\ SubSeq(s, 1, 2) = <<48, 120>>)

\* ethers.isAddress(s): the patterns of getAddress match digits and letters
\* only
isAddress(s) == IsAlnum(s) /\ getAddress(Text(s)) # THROWS

\* found.add(a): a Set keeps its elements once, in insertion order
SetAdd(found, a) ==
    IF \E i \in 1..Len(found) : found[i] = a THEN found ELSE Append(found, a)

RECURSIVE ScanCells(_, _), ScanRows(_, _)

\* for (const cell of row)
ScanCells(found, row) ==
    IF row = <<>> THEN found
    ELSE With(Trim(Head(row)), LAMBDA s :
         ScanCells(IF isProbablyAddress(s) /\ isAddress(s)
                   THEN SetAdd(found, getAddress(Text(s))) ELSE found,
                   Tail(row)))

\* for (const row of rows)
ScanRows(found, rs) ==
    IF rs = <<>> THEN found ELSE ScanRows(ScanCells(found, Head(rs)), Tail(rs))

\* XLSX.utils.sheet_to_json(sheet, { header: 1, defval: "" }): every row
SheetRowsA(sheet) == sheet

\* XLSX.utils.sheet_to_json(sheet, { defval: "" }): the values of the rows after
\* the header row
SheetRowsO(sheet) == IF sheet = <<>> THEN <<>> ELSE Tail(sheet)

extractAddressesFromSheet(sheet) ==
    ScanRows(ScanRows(<<>>, SheetRowsA(sheet)), SheetRowsO(sheet))

\* try { return ethers.getAddress(w) } catch { return w }
Canonical(w) == IF getAddress(w) = THROWS THEN w ELSE getAddress(w)

\* mutant: every found address is appended
MergeWallets_AppendsAll(prev, addrs) == prev \o addrs

\* mutant: have = new Set(prev), compared without canonical form
MergeWallets_RawCompare(prev, addrs) ==
    prev \o SelectSeq(addrs, LAMBDA a : \A i \in 1..Len(prev) : prev[i] # a)

\* the updater of setWallets: prev, then the addresses prev does not have
MergeWallets(prev, addrs) ==
    LET have == { Canonical(prev[i]) : i \in 1..Len(prev) } IN
    prev \o SelectSeq(addrs, LAMBDA a : a \notin have)

\* the files of the file input: one that arrayBuffer or XLSX.read rejects with
\* the error err, an object with a name and a message, and one that is read
\* as the grid cells
Unreadable(err) == [kind |-> "unreadable", cells |-> <<>>, err |-> err]
SheetFile(cells) == [kind |-> "sheet", cells |-> cells, err |-> Null]

\* String(err), Error.prototype.toString: the name, the message, or both
StringOfError(err) ==
    IF err.name = "" THEN err.message
    ELSE IF err.message = "" THEN err.name
    ELSE err.name \o ": " \o err.message

NoAddressAlert ==
    "Tidak ditemukan address valid di file. Pastikan format 0x... (42 chars)."

\* mutant: the catch shows the same notice as an import without addresses
FailedAlert_SameNotice(err) == NoAddressAlert

\* alert(`Gagal import: ${err?.message || String(err)}`)
FailedAlert(err) ==
    "Gagal import: " \o (IF err.message # "" THEN err.message ELSE StringOfError(err))

\* the record of an import: the file, the wallets before and after it, the
\* addresses found (Null if the file was not read), the alert shown (Null if
\* none), the alert of the import before it, and whether that import found
\* the same set of addresses and the list is still as it left it
Import(file, addrs, alert) ==
    [file |-> file, prev |-> wallets, after |-> wallets', addrs |-> addrs,
     alert |-> alert,
     alertBefore |-> IF imported = Null THEN Null ELSE imported[1].alert,
     again |-> /\ imported # Null
               /\ addrs # Null /\ addrs # Some(<<>>)
               /\ imported[1].addrs # Null
               /\ { imported[1].addrs[1][i] : i \in 1..Len(imported[1].addrs[1]) }
                      = { addrs[1][i] : i \in 1..Len(addrs[1]) }
               /\ imported[1].after = wallets]

\* a file is chosen in the file input: the handler runs to await
\* file.arrayBuffer()
handleFileSelected(file) ==
    /\ ~crashed
    /\ files < MaxReads
    /\ files' = files + 1
    /\ reads' = Append(reads, file)
    /\ UNCHANGED <<config, intervalSec, running, lastUpdated, rows, loading, error,
                   timerRef, timers, passes, now, nextId, rowsBy, done, imported,
                   output, edits, crashed>>

\* the pending read i settles and the handler runs to its end: the catch if
\* arrayBuffer or XLSX.read threw, else the alert or the updater of
\* setWallets, applied to the wallets of this moment (no updater runs for a
\* component that is no longer on the page)
FileRead(i) ==
    /\ LET file == reads[i] IN
       IF file.kind = "unreadable"
       THEN /\ wallets' = wallets
            /\ imported' = Some(Import(file, Null, Some(FailedAlert(file.err))))
       ELSE LET addrs == extractAddressesFromSheet(file.cells) IN
            IF addrs = <<>>
            THEN /\ wallets' = wallets
                 /\ imported' = Some(Import(file, Some(addrs), Some(NoAddressAlert)))
            ELSE /\ wallets' = IF crashed THEN wallets ELSE MergeWallets(wallets, addrs)
                 /\ imported' = Some(Import(file, Some(addrs), Null))
    /\ reads' = SubSeq(reads, 1, i - 1) \o SubSeq(reads, i + 1, Len(reads))
    /\ UNCHANGED <<chains, tokens, intervalSec, running, lastUpdated, rows, loading,
                   error, timerRef, timers, passes, now, nextId, rowsBy, done,
                   output, files, edits, crashed>>

(***************************************************************************)
(* Export of the displayed rows and the table.  A field a row does not     *)
(* have reads as undefined.                                                *)
(***************************************************************************)
RECURSIVE DoubleQuotes(_), JoinWith(_, _)

\* s.replace(/"/g, '""')
DoubleQuotes(s) ==
    IF Len(s) <= 1 THEN (IF s = "\"" THEN "\"\"" ELSE s)
    ELSE With(SubSeq(s, 1, Len(s) \div 2), DoubleQuotes)
             \o With(SubSeq(s, (Len(s) \div 2) + 1, Len(s)), DoubleQuotes)

\* mutant: the field is quoted as it is
Quoted_Raw(s) == "\"" \o s \o "\""

\* `"${String(v).replace(/"/g, '""')}"`
Quoted(s) == "\"" \o DoubleQuotes(s) \o "\""

\* parts.join(sep)
JoinWith(parts, sep) ==
    IF parts = <<>> THEN ""
    ELSE IF Len(parts) = 1 THEN parts[1]
    ELSE parts[1] \o sep \o JoinWith(Tail(parts), sep)

\* String(r[key]): the text of a field, "undefined" for one the row lacks
StringOf(r, key) == IF key \in DOMAIN r THEN r[key] ELSE "undefined"

\* String(r.decimals ?? "")
DecimalsText(r) == IF "decimals" \in DOMAIN r THEN DigitsOf(r.decimals) ELSE ""

\* fix4(r.balance): x == null ? "" : Number(x).toFixed(4)
fix4(r) ==
    IF "balance" \in DOMAIN r /\ r.balance # Null THEN toFixed(r.balance[1], 4) ELSE ""

\* r.error ?? ""
ErrorText(r) == IF "error" \in DOMAIN r THEN r.error ELSE ""

CsvHeader == "chain,wallet,asset,contract,decimals,balance,error" \o "\n"

\* the fields of the line of row r, before quoting
CsvValues(r) ==
    << StringOf(r, "chain"), StringOf(r, "wallet"), StringOf(r, "asset"),
       StringOf(r, "contract"), DecimalsText(r), fix4(r), ErrorText(r) >>

RECURSIVE QuotedFrom(_, _)

\* .map((v) => `"..."`) of the values from position i on
QuotedFrom(vals, i) ==
    IF i > Len(vals) THEN <<>> ELSE <<Quoted(vals[i])>> \o QuotedFrom(vals, i + 1)

\* rows.map(...): the line of each row
CsvLines(rs) == [i \in 1..Len(rs) |-> JoinWith(QuotedFrom(CsvValues(rs[i]), 1), ",")]

\* "Export CSV", disabled without rows: the text handed to saveAs
exportCsv ==
    /\ ~crashed
    /\ rows # <<>>
    /\ \E lines \in {CsvLines(rows)} :
         output' = Some([kind |-> "csv", rows |-> rows, lines |-> lines,
                         text |-> CsvHeader \o JoinWith(lines, "\n")])
    /\ UNCHANGED <<config, intervalSec, running, lastUpdated, rows, loading, error,
                   timerRef, timers, passes, now, nextId, rowsBy, done, imported,
                   reads, files, edits, crashed>>

\* a property of the objects given to json_to_sheet: undefined is Null
Property(r, key) == IF key \in DOMAIN r THEN Some(r[key]) ELSE Null

\* rows.map(...) of exportXlsx
XlsxData(rs) ==
    [i \in 1..Len(rs) |->
        [chain |-> Property(rs[i], "chain"), wallet |-> Property(rs[i], "wallet"),
         asset |-> Property(rs[i], "asset"), contract |-> Property(rs[i], "contract"),
         decimals |-> IF "decimals" \in DOMAIN rs[i] THEN Some(rs[i].decimals)
                      ELSE Some(""),
         balance |-> Some(fix4(rs[i])), error |-> Some(ErrorText(rs[i]))]]

\* "Export Excel (.xlsx)", disabled without rows: the data of the sheet
exportXlsx ==
    /\ ~crashed
    /\ rows # <<>>
    /\ output' = Some([kind |-> "xlsx", rows |-> rows, data |-> XlsxData(rows)])
    /\ UNCHANGED <<config, intervalSec, running, lastUpdated, rows, loading, error,
                   timerRef, timers, passes, now, nextId, rowsBy, done, imported,
                   reads, files, edits, crashed>>

\* the body of the table on a host of the locale: the balance cell of each row
RenderTable(locale) ==
    /\ ~crashed
    /\ output' = Some([kind |-> "table", rows |-> rows, locale |-> locale,
                       cells |-> [i \in 1..Len(rows) |->
                                    fmt(IF "balance" \in DOMAIN rows[i]
                                        THEN rows[i].balance ELSE Null, 4, locale)]])
    /\ UNCHANGED <<config, intervalSec, running, lastUpdated, rows, loading, error,
                   timerRef, timers, passes, now, nextId, rowsBy, done, imported,
                   reads, files, edits, crashed>>

(***************************************************************************)
(* The controls.                                                           *)
(***************************************************************************)
\* the closure setInterval is given: fetchBalancesOnce of the render of the effect
Timer(sec) == [sec |-> sec, chains |-> chains, wallets |-> wallets, tokens |-> tokens]

\* "Refresh now", disabled while loading
RefreshNow ==
    /\ ~crashed
    /\ ~loading
    /\ fetchBalancesOnce(chains, wallets, tokens)
    /\ UNCHANGED <<config, intervalSec, running, timerRef, timers, imported, output,
                   reads, files, edits, crashed>>

\* mutant: the cleanup forgets the interval without clearing it
Cleared_Leaks == timers

\* the effect's cleanup: clearInterval(timerRef.current) if there is one
Cleared == IF timerRef = Null THEN timers ELSE timers \ {timerRef[1]}

\* "Start": setRunning(true), then the cleanup of the effect of the render
\* before and the effect: a pass, and the timer if intervalSec > 0
Start ==
    /\ ~crashed
    /\ ~running
    /\ running' = TRUE
    /\ fetchBalancesOnce(chains, wallets, tokens)
    /\ timerRef' = IF intervalSec > 0 THEN Some(Timer(intervalSec)) ELSE Null
    /\ timers' = IF intervalSec > 0 THEN Cleared \cup {Timer(intervalSec)} ELSE Cleared
    /\ UNCHANGED <<config, intervalSec, imported, output, reads, files, edits, crashed>>

\* "Stop": setRunning(false), then the effect's cleanup
Stop ==
    /\ ~crashed
    /\ running
    /\ running' = FALSE
    /\ timerRef' = Null
    /\ timers' = Cleared
    /\ UNCHANGED <<config, intervalSec, lastUpdated, rows, loading, error, passes,
                   now, history, crashed>>

\* the interval field while stopped: the effect re-runs and does nothing
SetIntervalStopped(sec) ==
    /\ ~crashed
    /\ ~running
    /\ sec # intervalSec
    /\ intervalSec' = sec
    /\ timerRef' = Null
    /\ timers' = Cleared
    /\ UNCHANGED <<config, running, lastUpdated, rows, loading, error, passes,
                   now, history, crashed>>

\* the interval field while running: cleanup, then the effect again
SetIntervalRunning(sec) ==
    /\ ~crashed
    /\ running
    /\ sec # intervalSec
    /\ intervalSec' = sec
    /\ fetchBalancesOnce(chains, wallets, tokens)
    /\ timerRef' = IF sec > 0 THEN Some(Timer(sec)) ELSE Null
    /\ timers' = IF sec > 0 THEN Cleared \cup {Timer(sec)} ELSE Cleared
    /\ UNCHANGED <<config, running, imported, output, reads, files, edits, crashed>>

\* an active interval fires: the browser calls its closure
TimerTick ==
    /\ \E t \in timers : fetchBalancesOnce(t.chains, t.wallets, t.tokens)
    /\ UNCHANGED <<config, intervalSec, running, timerRef, timers, imported, output,
                   reads, files, edits, crashed>>

(***************************************************************************)
(* The edits of the form.  None of them is a dependency of the effect, so  *)
(* the timer keeps the closure it has.                                     *)
(***************************************************************************)
\* what an edit leaves as it is, the lists of the form aside
Edit ==
    /\ ~crashed
    /\ edits < MaxEdits
    /\ edits' = edits + 1
    /\ UNCHANGED <<intervalSec, running, lastUpdated, rows, loading, error, passes,
                   nextId, rowsBy, done, imported, output, reads, files>>

\* the render after an edit that cannot make it throw: the effect does not run
Rendered == UNCHANGED <<timerRef, timers, crashed>>

\* the render throws: (tokens[ch.id] || []).map is not a function for a chain
\* whose id tokens inherits and does not hold
RenderThrows(c, t) == \E i \in 1..Len(c) : NotIterable(t, c[i].id)

\* the render threw and nothing catches it: React removes the component, the
\* effect's cleanup clears the interval, and no control is left on the page
Unmounted ==
    /\ crashed' = TRUE
    /\ timerRef' = Null
    /\ timers' = Cleared

\* { ...x, ...patch }
Patched(x, patch) ==
    [k \in DOMAIN x \cup DOMAIN patch |-> IF k \in DOMAIN patch THEN patch[k] ELSE x[k]]

\* q without its element at position i
Removed(q, i) == SubSeq(q, 1, i - 1) \o SubSeq(q, i + 1, Len(q))

\* "+ add chain": the id is made of the clock, which has moved on at the next
\* click
addChain ==
    /\ Edit
    /\ Rendered
    /\ chains' = Append(chains, [id |-> "chain-" \o DigitsOf(now), rpc |-> "",
                                 symbol |-> ""])
    /\ now' = now + 1
    /\ UNCHANGED <<wallets, tokens>>

\* a field of chain idx is edited
updateChain(idx, patch) ==
    /\ Patched(chains[idx], patch) # chains[idx]
    /\ Edit
    /\ chains' = [chains EXCEPT ![idx] = Patched(@, patch)]
    /\ IF RenderThrows(chains', tokens) THEN Unmounted ELSE Rendered
    /\ UNCHANGED <<wallets, tokens, now>>

\* "Del" of chain idx
removeChain(idx) ==
    /\ Edit
    /\ Rendered
    /\ chains' = Removed(chains, idx)
    /\ UNCHANGED <<wallets, tokens, now>>

\* "+ add wallet"
addWallet ==
    /\ Edit
    /\ Rendered
    /\ wallets' = Append(wallets, "")
    /\ UNCHANGED <<chains, tokens, now>>

\* the field of wallet i is edited to v
updateWallet(i, v) ==
    /\ wallets[i] # v
    /\ Edit
    /\ Rendered
    /\ wallets' = [wallets EXCEPT ![i] = v]
    /\ UNCHANGED <<chains, tokens, now>>

\* "Del" of wallet i
removeWallet(i) ==
    /\ Edit
    /\ Rendered
    /\ wallets' = Removed(wallets, i)
    /\ UNCHANGED <<chains, tokens, now>>

\* { ...t, [chainId]: list }
WithTokens(t, chainId, list) ==
    [k \in DOMAIN t \cup {chainId} |-> IF k = chainId THEN list ELSE t[k]]

\* "+ token" of the chain with this id; for an id that tokens inherits and
\* does not hold, [...(t[chainId] || [])] throws in the updater and no state
\* is set
addToken(chainId) ==
    /\ ~NotIterable(tokens, chainId)
    /\ Edit
    /\ Rendered
    /\ tokens' = WithTokens(tokens, chainId,
                            Append(TokenList(tokens, chainId),
                                   [address |-> "", symbol |-> "", decimals |-> Null]))
    /\ UNCHANGED <<chains, wallets, now>>

\* a field of token idx of the chain with this id is edited
updateToken(chainId, idx, patch) ==
    /\ chainId \in DOMAIN tokens
    /\ idx \in 1..Len(tokens[chainId])
    /\ Patched(tokens[chainId][idx], patch) # tokens[chainId][idx]
    /\ Edit
    /\ Rendered
    /\ tokens' = WithTokens(tokens, chainId,
                            [tokens[chainId] EXCEPT ![idx] = Patched(@, patch)])
    /\ UNCHANGED <<chains, wallets, now>>

\* "x" of token idx of the chain with this id
removeToken(chainId, idx) ==
    /\ chainId \in DOMAIN tokens
    /\ idx \in 1..Len(tokens[chainId])
    /\ Edit
    /\ Rendered
    /\ tokens' = WithTokens(tokens, chainId, Removed(tokens[chainId], idx))
    /\ UNCHANGED <<chains, wallets, now>>

(***************************************************************************)
(* The component after construction.                                       *)
(***************************************************************************)
DefaultChains ==
    << [id |-> "ethereum", rpc |-> "https://ethereum-rpc.publicnode.com",
        symbol |-> "ETH"],
       [id |-> "polygon", rpc |-> "https://polygon-bor-rpc.publicnode.com",
        symbol |-> "MATIC"] >>

InitControls ==
    /\ intervalSec = 0
    /\ running = FALSE
    /\ lastUpdated = Null
    /\ rows = <<>>
    /\ loading = FALSE
    /\ error = Null
    /\ timerRef = Null
    /\ timers = {}
    /\ passes = <<>>
    /\ crashed = FALSE
    /\ now = 0
    /\ nextId = 0
    /\ rowsBy = <<>>
    /\ done = Null
    /\ imported = Null
    /\ output = Null
    /\ reads = <<>>
    /\ files = 0
    /\ edits = 0

Init ==
    /\ chains = DefaultChains
    /\ wallets = <<ADDR_ZERO>>
    /\ tokens = <<>>
    /\ InitControls

Intervals == {0, 1, 2}

\* what is typed into the fields of a chain, of a wallet and of a token, and
\* the file that is chosen
ChainPatches == { [id |-> "bsc"], [id |-> "constructor"], [rpc |-> ""] }
EditedWallets == {ADDR_A, ADDR_SHORT}
TokenPatches == { [address |-> "0x6B175474E89094C44Da98b954EedeAC495271d0F"],
                  [decimals |-> Null] }
ChosenFiles ==
    { SheetFile(<< <<Units("wallet"), Units("0xfb6916095ca1df60bb79ce92ce3ea74c37c5d359")>> >>) }

ChainIds == { chains[i].id : i \in 1..Len(chains) }

Next ==
    \/ RefreshNow
    \/ Start
    \/ Stop
    \/ \E sec \in Intervals : SetIntervalStopped(sec)
    \/ \E sec \in Intervals : SetIntervalRunning(sec)
    \/ TimerTick
    \/ \E i \in 1..Len(passes) : CallReturns(i)
    \/ \E i \in 1..Len(passes) : CallFails(i)
    \/ addChain
    \/ \E idx \in 1..Len(chains), patch \in ChainPatches : updateChain(idx, patch)
    \/ \E idx \in 1..Len(chains) : removeChain(idx)
    \/ addWallet
    \/ \E i \in 1..Len(wallets), v \in EditedWallets : updateWallet(i, v)
    \/ \E i \in 1..Len(wallets) : removeWallet(i)
    \/ \E id \in ChainIds : addToken(id)
    \/ \E id \in ChainIds :
           \E idx \in 1..Len(TokenList(tokens, id)), patch \in TokenPatches :
               updateToken(id, idx, patch)
    \/ \E id \in ChainIds :
           \E idx \in 1..Len(TokenList(tokens, id)) : removeToken(id, idx)
    \/ \E file \in ChosenFiles : handleFileSelected(file)
    \/ \E i \in 1..Len(reads) : FileRead(i)
    \/ exportCsv
    \/ exportXlsx
    \/ \E locale \in Locales : RenderTable(locale)

Spec == Init /\ [][Next]_vars

(***************************************************************************)
(* One pass over each configuration the form can hold, drawn from the      *)
(* pools below: "Refresh now" once, then the network's answers.            *)
(***************************************************************************)
CH_ETH == [id |-> "ethereum", rpc |-> "https://ethereum-rpc.publicnode.com",
           symbol |-> "ETH"]
CH_POLY == [id |-> "polygon", rpc |-> "https://polygon-bor-rpc.publicnode.com",
            symbol |-> ""]
CH_NORPC == [id |-> "bsc", rpc |-> "", symbol |-> "BNB"]
CH_NOID == [id |-> "", rpc |-> "https://bsc-rpc.publicnode.com", symbol |-> "BNB"]

TK_USDC == [address |-> "0xA0b86991c6218b36c1d19D4a2e9Eb0cE3606eB48",
            symbol |-> "", decimals |-> Null]
TK_USDT == [address |-> "0xdAC17F958D2ee523a2206206994597C13D831ec7",
            symbol |-> "USDT", decimals |-> Some(0)]
TK_EMPTY == [address |-> "", symbol |-> "", decimals |-> Null]
TK_DAI == [address |-> "0x6B175474E89094C44Da98b954EedeAC495271d0F",
           symbol |-> "", decimals |-> Some(81)]
TK_DAI_QUERIED == [address |-> "0x6B175474E89094C44Da98b954EedeAC495271d0F",
                   symbol |-> "", decimals |-> Null]

ChainLists ==
    { <<CH_ETH>>, <<CH_ETH, CH_POLY>>, <<CH_POLY, CH_ETH>>,
      <<CH_NORPC, CH_NOID, CH_ETH>> }

TokenLists == { <<>>, <<TK_USDC>>, <<TK_DAI_QUERIED>>, <<TK_USDT, TK_EMPTY, TK_DAI>> }

WalletPool == {"", ADDR_SHORT, ADDR_A_LOWER, ADDR_A}

SeqsUpTo(S, n) == UNION { [1..k -> S] : k \in 0..n }

InitPass ==
    /\ chains \in ChainLists
    /\ wallets \in SeqsUpTo(WalletPool, MaxWallets)
    /\ \E tl \in TokenLists : tokens = ("ethereum" :> tl)
    /\ InitControls

NextPass ==
    \/ nextId = 0 /\ RefreshNow
    \/ \E i \in 1..Len(passes) : CallReturns(i)
    \/ \E i \in 1..Len(passes) : CallFails(i)

SpecPass == InitPass /\ [][NextPass]_vars

(***************************************************************************)
(* Imports into each wallet list the form can hold, of the files below.    *)
(***************************************************************************)
ADDR_USDT_LOWER == "0xdac17f958d2ee523a2206206994597c13d831ec7"
ICAP == "XE65GB6LDNXYOFTX0NSV3FUWKOWIXAMJK36"

\* cells: an address between blanks; after a tab; before a line feed; between
\* a form feed and a carriage return and line feed; between a no-break space
\* with a byte order mark and an em space with an ideographic space; after
\* the letter e with acute accent (233), a zero width space (8203), a
\* Mongolian vowel separator (6158), none of which trim strips; 0x and forty
\* times the letter e with acute accent; 0x, a tab and 39 digits
CELL_A_LOWER == Units(ADDR_A_LOWER)
CELL_B_LOWER == Units(ADDR_B_LOWER)
CELL_A_PADDED == <<32, 32>> \o Units("0x5AAEB6053F3E94C9B9A09F33669435E7EF1BEAED") \o <<32>>
CELL_A_TAB == <<9>> \o CELL_A_LOWER
CELL_B_FEED == CELL_B_LOWER \o <<10>>
CELL_ZERO == <<12>> \o Units(ADDR_ZERO) \o <<13, 10>>
CELL_B_SPACED == <<160, 65279>> \o CELL_B_LOWER \o <<8195, 12288>>
CELL_ACCENT_ZERO == <<233>> \o Units(ADDR_ZERO)
CELL_ZERO_WIDTH == <<8203>> \o CELL_A_LOWER
CELL_VOWEL == CELL_A_LOWER \o <<6158>>
CELL_ACCENTS == <<48, 120>> \o SubSeq([i \in 1..40 |-> 233], 1, 40)
CELL_INNER_TAB == <<48, 120, 9>> \o SubSeq(CELL_A_LOWER, 4, 42)

ROW_HEAD == <<Units("wallet"), Units(ADDR_A_NOPREFIX)>>
ROW_A == <<CELL_A_LOWER, CELL_A_PADDED>>
ROW_B == <<Units(ADDR_BADSUM), CELL_B_LOWER>>
ROW_TAB == <<CELL_A_TAB, CELL_B_FEED>>
ROW_FEED == <<CELL_ZERO, Units("x")>>
ROW_USDT == <<Units(ICAP), Units(ADDR_USDT_LOWER)>>
ROW_SPACED == <<CELL_B_SPACED, CELL_ACCENT_ZERO>>
ROW_ACCENT == <<CELL_ACCENTS, CELL_ZERO_WIDTH, CELL_VOWEL, CELL_INNER_TAB>>

Sheets ==
    { <<ROW_HEAD, ROW_ACCENT>>, <<ROW_A, ROW_SPACED>>, <<ROW_B, ROW_A>>,
      <<ROW_TAB, ROW_FEED>>, <<ROW_HEAD, ROW_USDT>> }

E_READ == [name |-> "Error", message |-> "File is not readable"]
E_BLANK == [name |-> "Error", message |-> ""]

Files == { Unreadable(E_READ), Unreadable(E_BLANK) } \cup { SheetFile(g) : g \in Sheets }

WalletLists ==
    { <<>>, <<"">>, <<ADDR_A_LOWER>>, <<ADDR_SHORT, ADDR_A_LOWER>>,
      <<ADDR_B, "", ADDR_B>>, <<"", ADDR_A_LOWER, ADDR_SHORT>> }

InitImport ==
    /\ chains = DefaultChains
    /\ wallets \in WalletLists
    /\ tokens = <<>>
    /\ InitControls

NextImport ==
    \/ \E file \in Files : handleFileSelected(file)
    \/ \E i \in 1..Len(reads) : FileRead(i)

SpecImport == InitImport /\ [][NextImport]_vars

(***************************************************************************)
(* Imports into the wallet list of the form while it is edited: a file is  *)
(* chosen, the list changes while the file is read, and the read settles   *)
(* on the list of that moment.                                             *)
(***************************************************************************)
MergeFiles ==
    { Unreadable(E_READ), SheetFile(<<ROW_HEAD, ROW_ACCENT>>),
      SheetFile(<<ROW_A, ROW_SPACED>>), SheetFile(<<ROW_TAB, ROW_FEED>>) }

MergedWallets == {ADDR_A_LOWER, ADDR_SHORT}

NextMerge ==
    \/ \E file \in MergeFiles : handleFileSelected(file)
    \/ \E i \in 1..Len(reads) : FileRead(i)
    \/ addWallet
    \/ \E i \in 1..Len(wallets), v \in MergedWallets : updateWallet(i, v)
    \/ \E i \in 1..Len(wallets) : removeWallet(i)

SpecMerge == Init /\ [][NextMerge]_vars

(***************************************************************************)
(* The refresh loop over one chain with one wallet and one token: "Refresh *)
(* now", Start, Stop, the interval field, the ticks of the interval, the   *)
(* network, and the edits of the chains, the wallets and the tokens.       *)
(***************************************************************************)
InitTimer ==
    /\ chains = <<CH_POLY>>
    /\ wallets = <<ADDR_A>>
    /\ tokens = ("polygon" :> <<TK_USDT>>)
    /\ InitControls

NextTimer ==
    \/ RefreshNow
    \/ Start
    \/ Stop
    \/ \E sec \in Intervals : SetIntervalStopped(sec)
    \/ \E sec \in Intervals : SetIntervalRunning(sec)
    \/ TimerTick
    \/ \E i \in 1..Len(passes) : CallReturns(i)
    \/ \E i \in 1..Len(passes) : CallFails(i)
    \/ addChain
    \/ \E idx \in 1..Len(chains), patch \in ChainPatches : updateChain(idx, patch)
    \/ \E idx \in 1..Len(chains) : removeChain(idx)
    \/ addWallet
    \/ \E i \in 1..Len(wallets), v \in EditedWallets : updateWallet(i, v)
    \/ \E i \in 1..Len(wallets) : removeWallet(i)
    \/ \E id \in ChainIds : addToken(id)
    \/ \E id \in ChainIds :
           \E idx \in 1..Len(TokenList(tokens, id)), patch \in TokenPatches :
               updateToken(id, idx, patch)
    \/ \E id \in ChainIds :
           \E idx \in 1..Len(TokenList(tokens, id)) : removeToken(id, idx)

SpecTimer == InitTimer /\ [][NextTimer]_vars

(***************************************************************************)
(* Exports and the table of each result set of up to MaxShown of the rows  *)
(* below, which a pass can push.                                           *)
(***************************************************************************)
MaxShown == 2       \* rows of a displayed result set that is exported

\* the message of a token whose decimals are 81
QuotedErrMsg == UnitErrMsg(81)

ShownPool ==
    { ConnectErrorRow(CH_ETH, "timeout"),
      InvalidAddressRow(CH_POLY, ADDR_SHORT),
      NativeErrorRow(CH_ETH, ADDR_A, "timeout"),
      NativeRow(CH_ETH, ADDR_A, [mant |-> 123456789, exp |-> 13]),
      NativeRow(CH_POLY, ADDR_B, [mant |-> 1, exp |-> 8]),
      NativeRow(CH_POLY, ADDR_A, [mant |-> 15, exp |-> 13]),
      TokenRow(CH_ETH, ADDR_A, TK_USDC, "USDC", 6, [mant |-> 3125, exp |-> 1]),
      TokenRow(CH_ETH, ADDR_A, TK_USDT, "USDT", 0, [mant |-> 15, exp |-> 20]),
      TokenRow(CH_ETH, ADDR_B, TK_USDT, "USDT", 0, [mant |-> 1, exp |-> 30]),
      TokenRow(CH_ETH, ADDR_B, TK_USDT, "USDT", 0, [mant |-> 1234567891, exp |-> 10]),
      TokenErrorRow(CH_ETH, ADDR_A, TK_DAI, QuotedErrMsg) }

InitExport ==
    /\ chains = DefaultChains
    /\ wallets = <<ADDR_A, ADDR_B>>
    /\ tokens = ("ethereum" :> <<TK_USDC, TK_USDT, TK_DAI>>)
    /\ intervalSec = 0
    /\ running = FALSE
    /\ rows \in SeqsUpTo(ShownPool, MaxShown)
    /\ lastUpdated = IF rows = <<>> THEN Null ELSE Some(0)
    /\ loading = FALSE
    /\ error = Null
    /\ timerRef = Null
    /\ timers = {}
    /\ passes = <<>>
    /\ now = 1
    /\ nextId = 1
    /\ rowsBy = [i \in 1..Len(rows) |-> [pass |-> 1, ci |-> 1, wi |-> 0, ti |-> 0]]
    /\ done = Null
    /\ imported = Null
    /\ output = Null
    /\ reads = <<>>
    /\ files = 0
    /\ edits = 0
    /\ crashed = FALSE

NextExport ==
    \/ exportCsv
    \/ exportXlsx
    \/ \E locale \in Locales : RenderTable(locale)

SpecExport == InitExport /\ [][NextExport]_vars

(***************************************************************************)
(* Vocabulary of the properties.                                           *)
(***************************************************************************)
\* the passes in flight and the pass that finished last
AllPasses == { passes[i] : i \in 1..Len(passes) } \cup { done[i] : i \in 1..Len(done) }

Has(r, key) == key \in DOMAIN r
HasBalance(r) == Has(r, "balance") /\ r.balance # Null
HasError(r) == Has(r, "error")

\* positions in p.out of the rows pushed for chain ci, wallet wi, token ti
RowsOfChain(p, ci) == { i \in 1..Len(p.out) : p.outBy[i].ci = ci }
RowsOfWallet(p, ci, wi) == { i \in RowsOfChain(p, ci) : p.outBy[i].wi = wi }
RowsOfUnit(p, ci, wi, ti) == { i \in RowsOfWallet(p, ci, wi) : p.outBy[i].ti = ti }

\* positions in p.calls of the settled calls for chain ci, wallet wi
CallsOfChain(p, ci) == { k \in 1..Len(p.calls) : p.calls[k].ci = ci }
CallsOfWallet(p, ci, wi) == { k \in CallsOfChain(p, ci) : p.calls[k].wi = wi }

Skipped(ch) == ch.rpc = "" \/ ch.id = ""
ProbeFailedAt(p, ci) ==
    \E k \in CallsOfChain(p, ci) : p.calls[k].op = "probe" /\ ~p.calls[k].ok
ProbeOkAt(p, ci) ==
    \E k \in CallsOfChain(p, ci) : p.calls[k].op = "probe" /\ p.calls[k].ok

\* the call the pass is suspended on belongs to chain ci
PendingAt(p, ci) == p.await # "done" /\ p.ci = ci

\* positions of the tokens of chain id that have a contract address
FetchedTokens(p, id) ==
    { ti \in 1..Len(TokenList(p.tokens, id)) : TokenList(p.tokens, id)[ti].address # "" }

Invalid(w) == w # "" /\ getAddress(w) = THROWS
Valid(w) == w # "" /\ getAddress(w) # THROWS

(***************************************************************************)
(* C1: a chain whose connectivity probe fails gets exactly one row, with   *)
(* only the chain id and an error starting with "RPC connect error: ", and *)
(* no native or token call and no wallet or token row, whatever wallets    *)
(* and tokens are configured.                                              *)
(***************************************************************************)
C1_ProbeFailureOneRow ==
    \A p \in AllPasses : \A ci \in 1..Len(p.chains) :
        ProbeFailedAt(p, ci) =>
            /\ Cardinality(CallsOfChain(p, ci)) = 1
            /\ ~PendingAt(p, ci)
            /\ Cardinality(RowsOfChain(p, ci)) = 1
            /\ { i \in 1..Len(p.out) : p.out[i].chain = p.chains[ci].id }
                   = RowsOfChain(p, ci)
            /\ \A i \in RowsOfChain(p, ci) :
                   /\ DOMAIN p.out[i] = {"chain", "error"}
                   /\ p.out[i].chain = p.chains[ci].id
                   /\ StartsWith(p.out[i].error, "RPC connect error: ")

\* a finished pass: the first chain's probe failed with two valid wallets and
\* tokens configured for it, the second chain was fetched
C1_Witness ==
    /\ done # Null
    /\ Len(done[1].chains) = 2
    /\ ProbeFailedAt(done[1], 1)
    /\ ProbeOkAt(done[1], 2)
    /\ Len(done[1].wallets) = 2
    /\ \A wi \in 1..2 : Valid(done[1].wallets[wi])
    /\ FetchedTokens(done[1], done[1].chains[1].id) # {}
    /\ Len(rows) = 3

(***************************************************************************)
(* C2: on a chain whose probe succeeded, a non-empty wallet entry that     *)
(* fails normalization gets exactly one row (the raw string, contract      *)
(* "native", balance null, error "invalid address") and no native or token *)
(* call, whatever tokens are configured.                                   *)
(***************************************************************************)
C2_InvalidAddressOneRow ==
    \A p \in AllPasses : p.await = "done" =>
        \A ci \in 1..Len(p.chains) : ProbeOkAt(p, ci) =>
            \A wi \in 1..Len(p.wallets) : Invalid(p.wallets[wi]) =>
                LET mine == RowsOfWallet(p, ci, wi) IN
                /\ CallsOfWallet(p, ci, wi) = {}
                /\ Cardinality(mine) = 1
                /\ \A i \in mine :
                       p.out[i] = [chain |-> p.chains[ci].id,
                                   wallet |-> p.wallets[wi],
                                   asset |-> OrElse(p.chains[ci].symbol, "native"),
                                   contract |-> "native",
                                   balance |-> Null,
                                   error |-> "invalid address"]

\* a finished pass with an invalid wallet on a healthy chain that has two
\* tokens to fetch
C2_Witness ==
    /\ done # Null
    /\ \E ci \in 1..Len(done[1].chains) : \E wi \in 1..Len(done[1].wallets) :
          /\ ProbeOkAt(done[1], ci)
          /\ Invalid(done[1].wallets[wi])
          /\ Cardinality(FetchedTokens(done[1], done[1].chains[ci].id)) = 2
          /\ Cardinality(RowsOfWallet(done[1], ci, wi)) = 1

(***************************************************************************)
(* C3 as stated: in the result of a completed pass every (chain, wallet)   *)
(* pair has 1 + the number of tokens configured for the chain rows, and a  *)
(* chain whose connection failed has one chain-level row.                  *)
(***************************************************************************)
C3_RowsPerPair ==
    \A p \in AllPasses : p.await = "done" =>
        \A ci \in 1..Len(p.chains) :
            /\ ProbeFailedAt(p, ci) =>
                   /\ Cardinality(RowsOfChain(p, ci)) = 1
                   /\ \A i \in RowsOfChain(p, ci) : ~Has(p.out[i], "wallet")
            /\ ProbeOkAt(p, ci) =>
                   \A i \in RowsOfChain(p, ci) :
                       Cardinality({ j \in RowsOfChain(p, ci) :
                                        p.out[j].wallet = p.out[i].wallet })
                           = 1 + Len(TokenList(p.tokens, p.chains[ci].id))

(***************************************************************************)
(* C3 as amended: on a chain whose probe succeeded, a wallet entry gets    *)
(* 1 + the number of the chain's tokens that have a contract address rows  *)
(* when it is a valid address, one row when it is non-empty and invalid,   *)
(* none when it is empty; a chain whose connection failed has exactly one  *)
(* row, without a wallet; a skipped chain has none.                        *)
(***************************************************************************)
C3_RowsPerWalletEntry ==
    \A p \in AllPasses : p.await = "done" =>
        \A ci \in 1..Len(p.chains) :
            /\ Skipped(p.chains[ci]) => RowsOfChain(p, ci) = {}
            /\ ProbeFailedAt(p, ci) =>
                   /\ Cardinality(RowsOfChain(p, ci)) = 1
                   /\ \A i \in RowsOfChain(p, ci) : ~Has(p.out[i], "wallet")
            /\ ProbeOkAt(p, ci) =>
                   /\ RowsOfWallet(p, ci, 0) = {}
                   /\ \A wi \in 1..Len(p.wallets) :
                          Cardinality(RowsOfWallet(p, ci, wi)) =
                              IF p.wallets[wi] = "" THEN 0
                              ELSE IF Invalid(p.wallets[wi]) THEN 1
                              ELSE 1 + Cardinality(FetchedTokens(p, p.chains[ci].id))

\* a finished pass over a healthy chain with three token entries, one of them
\* without an address, a valid wallet and an invalid one
C3_Witness ==
    /\ done # Null
    /\ \E ci \in 1..Len(done[1].chains) :
          /\ ProbeOkAt(done[1], ci)
          /\ Len(TokenList(done[1].tokens, done[1].chains[ci].id)) = 3
          /\ Cardinality(FetchedTokens(done[1], done[1].chains[ci].id)) = 2
          /\ \E wi \in 1..Len(done[1].wallets) :
                 /\ Valid(done[1].wallets[wi])
                 /\ Cardinality(RowsOfWallet(done[1], ci, wi)) = 3
          /\ \E wi \in 1..Len(done[1].wallets) :
                 /\ Invalid(done[1].wallets[wi])
                 /\ Cardinality(RowsOfWallet(done[1], ci, wi)) = 1

(***************************************************************************)
(* C4 as stated: for a valid wallet on a healthy chain, a finished pass    *)
(* has the native row and one row for every token configured for the       *)
(* chain, a failed balance fetch gives an error row for that unit only,    *)
(* and the wallet's error rows are as many as its failed balance fetches.  *)
(***************************************************************************)
\* the settled balance fetches (native, balanceOf) of wallet wi on chain ci
BalanceCalls(p, ci, wi) ==
    { k \in CallsOfWallet(p, ci, wi) : p.calls[k].op \in {"native", "balanceOf"} }

C4_ErrorRowsAreFailedFetches ==
    \A p \in AllPasses : p.await = "done" =>
        \A ci \in 1..Len(p.chains) : ProbeOkAt(p, ci) =>
            \A wi \in 1..Len(p.wallets) : Valid(p.wallets[wi]) =>
                LET tlist == TokenList(p.tokens, p.chains[ci].id)
                    mine == RowsOfWallet(p, ci, wi)
                    fetches == BalanceCalls(p, ci, wi)
                    RowsOf(ti) == { i \in mine : p.outBy[i].ti = ti } IN
                /\ Cardinality(RowsOf(0)) = 1
                /\ \A ti \in 1..Len(tlist) : Cardinality(RowsOf(ti)) = 1
                /\ Cardinality({ i \in mine : HasError(p.out[i]) })
                       = Cardinality({ k \in fetches : ~p.calls[k].ok })

(***************************************************************************)
(* C4 as amended: for a valid wallet on a healthy chain, a finished pass   *)
(* has the native row and one row for each token entry that has a contract *)
(* address; the row of a unit is an error row (balance null, error set)    *)
(* exactly when that unit's balance fetch failed or, for a token, its      *)
(* fetched balance could not be converted with the resolved decimals, and  *)
(* a success row otherwise; so the wallet's error rows are as many as its  *)
(* units whose fetch or conversion failed, and no failure suppresses       *)
(* another unit's row.                                                     *)
(***************************************************************************)
\* the decimals override of token entry t is one formatUnits rejects
ConversionFails(t) == t.decimals # Null /\ UnitTooLarge(t.decimals[1])

C4_FailureIsolatedToUnit ==
    \A p \in AllPasses : p.await = "done" =>
        \A ci \in 1..Len(p.chains) : ProbeOkAt(p, ci) =>
            \A wi \in 1..Len(p.wallets) : Valid(p.wallets[wi]) =>
                LET id == p.chains[ci].id
                    tlist == TokenList(p.tokens, id)
                    mine == RowsOfWallet(p, ci, wi)
                    fetches == BalanceCalls(p, ci, wi)
                    RowsOf(ti) == { i \in mine : p.outBy[i].ti = ti }
                    Failed(k) == \/ ~p.calls[k].ok
                                 \/ /\ p.calls[k].op = "balanceOf"
                                    /\ ConversionFails(tlist[p.calls[k].ti]) IN
                /\ Cardinality(RowsOf(0)) = 1
                /\ \A i \in RowsOf(0) : p.out[i].contract = "native"
                /\ \A ti \in FetchedTokens(p, id) :
                       /\ Cardinality(RowsOf(ti)) = 1
                       /\ \A i \in RowsOf(ti) : p.out[i].contract = tlist[ti].address
                /\ Cardinality(mine) = 1 + Cardinality(FetchedTokens(p, id))
                /\ Cardinality(fetches) = Cardinality(mine)
                /\ Cardinality({ i \in mine : HasError(p.out[i]) })
                       = Cardinality({ k \in fetches : Failed(k) })
                /\ \A k \in fetches : \A i \in RowsOf(p.calls[k].ti) :
                       /\ HasError(p.out[i]) = Failed(k)
                       /\ HasBalance(p.out[i]) = ~Failed(k)
                       /\ HasError(p.out[i]) => p.out[i].balance = Null

\* a finished pass where, for one wallet with two tokens to fetch, one token's
\* balance fetch failed and the other's returned a balance that could not be
\* converted, next to a native row with a balance
C4_Witness ==
    /\ done # Null
    /\ \E ci \in 1..Len(done[1].chains) : \E wi \in 1..Len(done[1].wallets) :
          LET p == done[1]
              tlist == TokenList(p.tokens, p.chains[ci].id) IN
          /\ Cardinality(FetchedTokens(p, p.chains[ci].id)) = 2
          /\ Cardinality(RowsOfWallet(p, ci, wi)) = 3
          /\ Cardinality({ i \in RowsOfWallet(p, ci, wi) : HasError(p.out[i]) }) = 2
          /\ \E k \in BalanceCalls(p, ci, wi) :
                 p.calls[k].op = "native" /\ p.calls[k].ok
          /\ \E k \in BalanceCalls(p, ci, wi) :
                 p.calls[k].op = "balanceOf" /\ ~p.calls[k].ok
          /\ \E k \in BalanceCalls(p, ci, wi) :
                 /\ p.calls[k].op = "balanceOf" /\ p.calls[k].ok
                 /\ ConversionFails(tlist[p.calls[k].ti])

(***************************************************************************)
(* C5: every row of every published result set has exactly one of balance  *)
(* and error non-null, an absent key counting as null.                     *)
(***************************************************************************)
C5_BalanceXorError ==
    \A i \in 1..Len(rows) : HasBalance(rows[i]) # HasError(rows[i])

\* a published result set with a chain-level row, an invalid-address row, a
\* native row, a token row and a token error row
C5_Witness ==
    /\ \E i \in 1..Len(rows) : DOMAIN rows[i] = {"chain", "error"}
    /\ \E i \in 1..Len(rows) : HasError(rows[i]) /\ rows[i].error = "invalid address"
    /\ \E i \in 1..Len(rows) :
          /\ HasBalance(rows[i])
          /\ rows[i].contract = "native"
    /\ \E i \in 1..Len(rows) : Has(rows[i], "decimals")
    /\ \E i \in 1..Len(rows) :
          /\ HasError(rows[i])
          /\ Has(rows[i], "contract")
          /\ rows[i].contract # "native"

(***************************************************************************)
(* C6: whatever calls fail, a pass goes through every chain, wallet and    *)
(* token and ends by publishing its result set; no failure reaches the     *)
(* pass-level catch or stops the units after it.                           *)
(***************************************************************************)
\* the pass has dealt with every chain, wallet and token of its configuration
VisitedAll(p) ==
    \A ci \in 1..Len(p.chains) :
        \/ Skipped(p.chains[ci])
        \/ ProbeFailedAt(p, ci)
        \/ /\ ProbeOkAt(p, ci)
           /\ \A wi \in 1..Len(p.wallets) :
                  \/ p.wallets[wi] = ""
                  \/ Invalid(p.wallets[wi]) /\ RowsOfWallet(p, ci, wi) # {}
                  \/ /\ Valid(p.wallets[wi])
                     /\ \E k \in CallsOfWallet(p, ci, wi) : p.calls[k].op = "native"
                     /\ \A ti \in FetchedTokens(p, p.chains[ci].id) :
                            \E k \in CallsOfWallet(p, ci, wi) :
                                /\ p.calls[k].op = "balanceOf"
                                /\ p.calls[k].ti = ti

C6_NoFailureAbortsPass ==
    /\ error = Null
    /\ \A p \in AllPasses : p.thrown = Null
    /\ done # Null =>
           /\ VisitedAll(done[1])
           /\ rows = done[1].out
           /\ lastUpdated # Null

\* a finished pass in which a probe, a native fetch and a token balance fetch
\* failed, and a token after the failed one was fetched
C6_Witness ==
    /\ done # Null
    /\ done[1].faults = 3
    /\ \E k \in 1..Len(done[1].calls) :
          done[1].calls[k].op = "probe" /\ ~done[1].calls[k].ok
    /\ \E k \in 1..Len(done[1].calls) :
          done[1].calls[k].op = "native" /\ ~done[1].calls[k].ok
    /\ \E k \in 1..Len(done[1].calls) : \E j \in 1..Len(done[1].calls) :
          /\ k < j
          /\ done[1].calls[k].op = "balanceOf" /\ ~done[1].calls[k].ok
          /\ done[1].calls[j].op = "balanceOf" /\ done[1].calls[j].ok
    /\ rows = done[1].out

(***************************************************************************)
(* C7: the rows of a published result set are in the order of (chain       *)
(* position, wallet position, native row first and then the tokens in list *)
(* order), whichever calls failed.                                         *)
(***************************************************************************)
\* the loop position a is before the loop position b
Before(a, b) ==
    \/ a.ci < b.ci
    \/ a.ci = b.ci /\ a.wi < b.wi
    \/ a.ci = b.ci /\ a.wi = b.wi /\ a.ti < b.ti

\* the row r is the row of the loop position at of the configuration
RowIsOf(r, at) ==
    /\ r.chain = chains[at.ci].id
    /\ IF at.wi = 0 THEN ~Has(r, "wallet")
       ELSE /\ r.wallet \in {wallets[at.wi], getAddress(wallets[at.wi])}
            /\ r.contract = IF at.ti = 0 THEN "native"
                            ELSE TokenList(tokens, r.chain)[at.ti].address

C7_RowOrder ==
    /\ Len(rowsBy) = Len(rows)
    /\ \A i \in 1..Len(rows) : RowIsOf(rows[i], rowsBy[i])
    /\ \A i, j \in 1..Len(rows) : i < j => Before(rowsBy[i], rowsBy[j])

\* a published result set with rows of two chains, of two wallets of one chain
\* and of two tokens of one wallet, one of them an error row
C7_Witness ==
    /\ \E i, j \in 1..Len(rows) : rowsBy[i].ci # rowsBy[j].ci
    /\ \E i, j \in 1..Len(rows) :
          /\ rowsBy[i].ci = rowsBy[j].ci
          /\ rowsBy[i].wi # rowsBy[j].wi
          /\ rowsBy[i].wi > 0 /\ rowsBy[j].wi > 0
    /\ \E i, j \in 1..Len(rows) :
          /\ rowsBy[i].ci = rowsBy[j].ci /\ rowsBy[i].wi = rowsBy[j].wi
          /\ rowsBy[i].ti > 0 /\ rowsBy[j].ti > rowsBy[i].ti
    /\ \E i \in 1..Len(rows) : HasError(rows[i])

(***************************************************************************)
(* C8: the displayed rows are never a partial result: they are the initial *)
(* empty list or the complete list of a pass that has finished, and they   *)
(* are written only by the step that ends a pass.                          *)
(***************************************************************************)
C8_RowsNeverPartial ==
    /\ [](IF done = Null
          THEN rows = <<>>
          ELSE rows = done[1].out /\ done[1].await = "done")
    /\ [][rows' # rows => (done' # done /\ Len(passes') <= Len(passes))]_vars

\* rows of an earlier pass are displayed while a pass in flight has already
\* pushed rows of its own
C8_Witness ==
    /\ rows # <<>>
    /\ \E i \in 1..Len(passes) :
          /\ passes[i].out # <<>>
          /\ passes[i].out # rows
          /\ passes[i].await # "done"

(***************************************************************************)
(* C9: a tick of the refresh timer never starts a pass while another pass  *)
(* is in flight.                                                           *)
(***************************************************************************)
C9_TickNeverOverlaps == [][TimerTick => passes = <<>>]_vars

(***************************************************************************)
(* C10: with passes overlapping, every displayed result set consists of    *)
(* rows pushed by one and the same pass.                                   *)
(***************************************************************************)
C10_RowsOfOnePass ==
    /\ Len(rowsBy) = Len(rows)
    /\ \A i, j \in 1..Len(rowsBy) : rowsBy[i].pass = rowsBy[j].pass

\* the rows of a pass are displayed while a pass started before it is still in
\* flight and has pushed rows
C10_Witness ==
    /\ done # Null
    /\ rows # <<>>
    /\ \E i \in 1..Len(passes) :
          /\ passes[i].id < done[1].id
          /\ passes[i].out # <<>>

(***************************************************************************)
(* C11: a later-started pass supersedes the earlier ones: when no pass is  *)
(* in flight any more, the displayed rows are those of the pass that was   *)
(* started last (of a component that is on the page).                      *)
(***************************************************************************)
C11_LatestPassWins ==
    (~crashed /\ passes = <<>> /\ nextId > 0) =>
        /\ \A i \in 1..Len(rowsBy) : rowsBy[i].pass = nextId
        /\ (done # Null /\ done[1].thrown = Null) => done[1].id = nextId

(***************************************************************************)
(* C13: a chain whose id or rpc is empty is skipped: the pass makes no     *)
(* call for it, never waits on it and pushes no row for it, so that no row *)
(* carries its id; the chains after it are processed all the same.         *)
(***************************************************************************)
C13_SkippedChainNoCallNoRow ==
    \A p \in AllPasses : \A ci \in 1..Len(p.chains) :
        Skipped(p.chains[ci]) =>
            /\ CallsOfChain(p, ci) = {}
            /\ ~PendingAt(p, ci)
            /\ RowsOfChain(p, ci) = {}
            /\ \A i \in 1..Len(p.out) : p.out[i].chain # p.chains[ci].id
            /\ p.await = "done" =>
                   \A cj \in ci + 1..Len(p.chains) :
                       ~Skipped(p.chains[cj]) =>
                           ProbeOkAt(p, cj) \/ ProbeFailedAt(p, cj)

\* a finished pass over a chain without rpc, a chain without id and a healthy
\* chain after them, whose rows are displayed
C13_Witness ==
    /\ done # Null
    /\ Len(done[1].chains) = 3
    /\ done[1].chains[1].rpc = "" /\ done[1].chains[1].id # ""
    /\ done[1].chains[2].id = "" /\ done[1].chains[2].rpc # ""
    /\ ProbeOkAt(done[1], 3)
    /\ Len(rows) >= 2
    /\ \A i \in 1..Len(rows) : rows[i].chain = done[1].chains[3].id

(***************************************************************************)
(* C14: the decimals of a token are the configured override whenever it is *)
(* not null, 0 included, and the contract is then not queried; without an  *)
(* override the contract is queried once, and if that query fails 18 is    *)
(* used; the failure of the query alone never makes the row an error row:  *)
(* the row is a success row, converted with the resolved decimals,         *)
(* whenever the balance fetch returned and the decimals are convertible.   *)
(***************************************************************************)
\* the settled calls op of pass p for token ti of wallet wi on chain ci
CallsOfUnit(p, ci, wi, ti, op) ==
    { k \in CallsOfWallet(p, ci, wi) : p.calls[k].ti = ti /\ p.calls[k].op = op }

\* the decimals pass p resolved for that unit, from what was configured and
\* how the query ended
ResolvedDecimals(p, ci, wi, ti) ==
    LET t == TokenList(p.tokens, p.chains[ci].id)[ti] IN
    IF t.decimals # Null THEN t.decimals[1]
    ELSE IF \E k \in CallsOfUnit(p, ci, wi, ti, "decimals") : p.calls[k].ok
         THEN DecimalsOf(t.address)
         ELSE 18

C14_DecimalsResolution ==
    \A p \in AllPasses : p.await = "done" /\ p.thrown = Null =>
        \A ci \in 1..Len(p.chains) : ProbeOkAt(p, ci) =>
            \A wi \in 1..Len(p.wallets) : Valid(p.wallets[wi]) =>
                \A ti \in FetchedTokens(p, p.chains[ci].id) :
                    LET t == TokenList(p.tokens, p.chains[ci].id)[ti]
                        queries == CallsOfUnit(p, ci, wi, ti, "decimals")
                        fetched == \E k \in CallsOfUnit(p, ci, wi, ti, "balanceOf") :
                                       p.calls[k].ok
                        d == ResolvedDecimals(p, ci, wi, ti) IN
                    /\ Cardinality(queries) = IF t.decimals = Null THEN 1 ELSE 0
                    /\ \A i \in RowsOfUnit(p, ci, wi, ti) :
                           /\ HasBalance(p.out[i]) = (fetched /\ ~UnitTooLarge(d))
                           /\ HasBalance(p.out[i]) =>
                                  /\ p.out[i].decimals = d
                                  /\ p.out[i].balance =
                                         Some(formatUnits(
                                             TokenRawOf(p.chains[ci].rpc, t.address,
                                                        getAddress(p.wallets[wi])), d))

\* a finished pass over two wallets and a token without override: the decimals
\* query returned for one wallet and failed for the other, and both rows are
\* success rows, one with the decimals of the contract and one with 18
C14_Witness ==
    /\ done # Null
    /\ \E i, j \in 1..Len(rows) :
          /\ rowsBy[i].ci = rowsBy[j].ci /\ rowsBy[i].ti = 1 /\ rowsBy[j].ti = 1
          /\ HasBalance(rows[i]) /\ HasBalance(rows[j])
          /\ rows[i].decimals = 18
          /\ rows[j].decimals = DecimalsOf(rows[j].contract)
          /\ rows[i].balance # rows[j].balance
          /\ \E k \in CallsOfUnit(done[1], rowsBy[i].ci, rowsBy[i].wi, 1, "decimals") :
                 ~done[1].calls[k].ok

(***************************************************************************)
(* C15: the asset of a token error row is the symbol resolved for that     *)
(* token before the failure: the configured override, else the symbol the  *)
(* contract returned if the symbol query succeeded, else the first 6       *)
(* characters of the contract address.                                     *)
(***************************************************************************)
\* the symbol pass p resolved for that unit, from what was configured and how
\* the query ended
ResolvedSymbol(p, ci, wi, ti) ==
    LET t == TokenList(p.tokens, p.chains[ci].id)[ti] IN
    IF t.symbol # "" THEN t.symbol
    ELSE IF \E k \in CallsOfUnit(p, ci, wi, ti, "symbol") : p.calls[k].ok
         THEN SymbolOf(t.address)
         ELSE Slice(t.address, 6)

C15_ErrorRowAssetIsResolvedSymbol ==
    \A p \in AllPasses : p.await = "done" /\ p.thrown = Null =>
        \A i \in 1..Len(p.out) :
            (p.outBy[i].ti > 0 /\ HasError(p.out[i])) =>
                p.out[i].asset =
                    ResolvedSymbol(p, p.outBy[i].ci, p.outBy[i].wi, p.outBy[i].ti)

(***************************************************************************)
(* C16: within one pass nothing is retried: no call is made twice for the  *)
(* same chain entry, wallet entry and token entry, whether it returned or  *)
(* failed, so each native and each token balance is asked for at most      *)
(* once; a finished pass has probed every chain it did not skip exactly    *)
(* once.                                                                   *)
(***************************************************************************)
\* calls k and l of pass p are the same request
SameRequest(p, k, l) ==
    /\ p.calls[k].op = p.calls[l].op
    /\ p.calls[k].ci = p.calls[l].ci
    /\ p.calls[k].wi = p.calls[l].wi
    /\ p.calls[k].ti = p.calls[l].ti

C16_NoRetryWithinPass ==
    \A p \in AllPasses :
        /\ \A k \in 1..Len(p.calls) : \A l \in k + 1..Len(p.calls) :
               ~SameRequest(p, k, l)
        /\ p.await # "done" =>
               \A k \in 1..Len(p.calls) :
                   ~(/\ p.calls[k].op = p.await /\ p.calls[k].ci = p.ci
                     /\ p.calls[k].wi = p.wi /\ p.calls[k].ti = p.ti)
        /\ (p.await = "done" /\ p.thrown = Null) =>
               \A ci \in 1..Len(p.chains) :
                   ~Skipped(p.chains[ci]) =>
                       Cardinality({ k \in CallsOfChain(p, ci) :
                                        p.calls[k].op = "probe" }) = 1

\* a finished pass in which a probe, a native fetch and a token balance fetch
\* failed, and the same address is listed twice
C16_Witness ==
    /\ done # Null
    /\ \E k \in 1..Len(done[1].calls) :
          done[1].calls[k].op = "probe" /\ ~done[1].calls[k].ok
    /\ \E k \in 1..Len(done[1].calls) :
          done[1].calls[k].op = "native" /\ ~done[1].calls[k].ok
    /\ \E k \in 1..Len(done[1].calls) :
          done[1].calls[k].op = "balanceOf" /\ ~done[1].calls[k].ok
    /\ Len(done[1].wallets) = 2
    /\ getAddress(done[1].wallets[1]) = getAddress(done[1].wallets[2])
    /\ Valid(done[1].wallets[1])

(***************************************************************************)
(* C17: extractAddressesFromSheet returns exactly the checksummed forms of *)
(* the cells, of any row (the first included) and any column, whose        *)
(* trimmed text has the 0x/42-character shape and is a valid address, each *)
(* once: the same address in several cells or in different letter case is *)
(* one element.                                                            *)
(***************************************************************************)
\* the cells of a grid
CellsOf(g) == UNION { { g[r][c] : c \in 1..Len(g[r]) } : r \in 1..Len(g) }

\* the places of the characters of c that are no white space
Inked(c) == { k \in 1..Len(c) : c[k] \notin WhiteSpace }

\* c without the white space before its first and after its last such
\* character
Trimmed(c) ==
    IF Inked(c) = {} THEN <<>>
    ELSE SubSeq(c, CHOOSE k \in Inked(c) : \A l \in Inked(c) : k <= l,
                   CHOOSE k \in Inked(c) : \A l \in Inked(c) : k >= l)

\* the trimmed text of cell c is a valid address of the 0x/42-character shape
ValidCell(c) ==
    /\ Len(Trimmed(c)) = 42
    /\ SubSeq(Trimmed(c), 1, 2) = Units("0x")
    /\ IsAlnum(Trimmed(c))
    /\ getAddress(Text(Trimmed(c))) # THROWS

Elements(q) == { q[i] : i \in 1..Len(q) }

C17_ExtractExactlyValidCells ==
    (imported # Null /\ imported[1].addrs # Null) =>
        LET addrs == imported[1].addrs[1]
            g == imported[1].file.cells IN
        /\ Elements(addrs) =
               { getAddress(Text(Trimmed(c))) : c \in { x \in CellsOf(g) : ValidCell(x) } }
        /\ \A i, j \in 1..Len(addrs) : addrs[i] = addrs[j] => i = j

\* a sheet of two rows was imported whose first row holds one address in lower
\* case and, between blanks, in upper case, and whose second row holds
\* another address between a no-break space, a byte order mark, an em space
\* and an ideographic space, and a third one after a letter that is no white
\* space: two elements
C17_Witness ==
    /\ imported # Null
    /\ imported[1].file.kind = "sheet"
    /\ Len(imported[1].file.cells) = 2
    /\ imported[1].file.cells[1] = <<CELL_A_LOWER, CELL_A_PADDED>>
    /\ imported[1].file.cells[2] = <<CELL_B_SPACED, CELL_ACCENT_ZERO>>
    /\ imported[1].addrs = Some(<<ADDR_A, ADDR_B>>)

(***************************************************************************)
(* C18: after an import that found addresses the wallet list is the list   *)
(* before it, unchanged, followed by those found addresses whose canonical *)
(* form is the canonical form of no earlier entry, each once, in the order *)
(* in which the importer found them.                                       *)
(***************************************************************************)
\* q is p with some elements left out, the others in the same order
RECURSIVE IsSubsequence(_, _)
IsSubsequence(q, p) ==
    IF q = <<>> THEN TRUE
    ELSE IF p = <<>> THEN FALSE
    ELSE IF Head(q) = Head(p) THEN IsSubsequence(Tail(q), Tail(p))
    ELSE IsSubsequence(q, Tail(p))

C18_ImportAppendsNewAddresses ==
    (imported # Null /\ imported[1].alert = Null) =>
        LET prev == imported[1].prev
            addrs == imported[1].addrs[1]
            after == imported[1].after
            added == SubSeq(after, Len(prev) + 1, Len(after))
            known(a) == \E i \in 1..Len(prev) :
                            \/ prev[i] = a
                            \/ getAddress(prev[i]) = a IN
        /\ Len(after) >= Len(prev)
        /\ SubSeq(after, 1, Len(prev)) = prev
        /\ Elements(added) = { a \in Elements(addrs) : ~known(a) }
        /\ \A i, j \in 1..Len(added) : added[i] = added[j] => i = j
        /\ IsSubsequence(added, addrs)

\* the one wallet of the form was edited to an address in lower case, and an
\* import found that address and then another: the list is the edited one,
\* plus the other address
C18_Witness ==
    /\ imported # Null
    /\ edits = 1
    /\ imported[1].prev = <<ADDR_A_LOWER>>
    /\ imported[1].addrs = Some(<<ADDR_A, ADDR_B>>)
    /\ imported[1].after = <<ADDR_A_LOWER, ADDR_B>>
    /\ wallets = imported[1].after

(***************************************************************************)
(* C19: the import merge is idempotent: an import that finds the same set  *)
(* of addresses as the import before it leaves the wallet list as that     *)
(* import left it, whatever the list was at the start.                     *)
(***************************************************************************)
C19_ImportIdempotent ==
    (imported # Null /\ imported[1].again) =>
        /\ imported[1].alert = Null
        /\ imported[1].after = imported[1].prev

\* the second of two imports that found the same two addresses, in another
\* order, into a list that began with an empty or invalid entry and to which
\* the first import had added an address
C19_Witness ==
    /\ imported # Null
    /\ imported[1].again
    /\ Len(imported[1].addrs[1]) = 2
    /\ imported[1].addrs[1][1] = ADDR_B
    /\ Len(imported[1].prev) = 3
    /\ imported[1].prev[1] \in {"", ADDR_SHORT}
    /\ imported[1].prev[2] = ADDR_A
    /\ imported[1].prev[3] = ADDR_B
    /\ imported[1].after = imported[1].prev

(***************************************************************************)
(* C20: an import that finds no valid address and an import whose file     *)
(* cannot be read or parsed show two different notices, an import that     *)
(* finds addresses shows none, and in both failing cases the wallet list   *)
(* stays as it was.                                                        *)
(***************************************************************************)
C20_ImportNoticesDistinct ==
    imported # Null =>
        LET r == imported[1] IN
        /\ r.file.kind = "unreadable" <=> r.addrs = Null
        /\ r.addrs = Null =>
               /\ r.alert # Null
               /\ StartsWith(r.alert[1], "Gagal import: ")
               /\ r.alert[1] # NoAddressAlert
               /\ r.after = r.prev
        /\ r.addrs = Some(<<>>) =>
               /\ r.alert = Some(NoAddressAlert)
               /\ r.after = r.prev
        /\ (r.addrs # Null /\ r.addrs # Some(<<>>)) => r.alert = Null

\* a file whose read failed with an error without a message and then a sheet
\* with a header row and a row of cells that start with 0x or hold an
\* address, yet none is a valid address of the 0x/42 shape once trimmed, were
\* imported into a list of two wallets: two different notices, the list as
\* it was
C20_Witness ==
    /\ imported # Null
    /\ imported[1].file.kind = "sheet"
    /\ imported[1].file.cells = <<ROW_HEAD, ROW_ACCENT>>
    /\ imported[1].alert = Some(NoAddressAlert)
    /\ imported[1].alertBefore = Some("Gagal import: Error")
    /\ imported[1].alertBefore # imported[1].alert
    /\ Len(imported[1].after) = 2
    /\ imported[1].after = imported[1].prev


(***************************************************************************)
(* Reading a comma separated text back.  A comma or a line end separates   *)
(* fields when an even number of quotes precedes it; a field enclosed in   *)
(* quotes stands for its inside with every doubled quote read as one.      *)
(***************************************************************************)
CharAt(s, i) == SubSeq(s, i, i)

QuotesOf(s) == {i \in 1..Len(s) : CharAt(s, i) = "\""}

SeparatorsOf(s) ==
    LET quotes == QuotesOf(s)
    IN  {i \in 1..Len(s) :
            /\ CharAt(s, i) \in {",", "\n"}
            /\ Cardinality({j \in quotes : j < i}) % 2 = 0}

RECURSIVE Undoubled(_)

\* the text with each pair of quotes read as one quote; a long text is read
\* in two parts, divided at a character that is not a quote
Undoubled(s) ==
    LET middle == { i \in (Len(s) \div 2)..Len(s) : i > 1 /\ CharAt(s, i) # "\"" } IN
    IF s = "" THEN ""
    ELSE IF Len(s) > 8 /\ middle # {}
         THEN With(CHOOSE i \in middle : \A j \in middle : i <= j, LAMBDA at :
              With(SubSeq(s, 1, at - 1), Undoubled) \o CharAt(s, at)
                  \o With(SubSeq(s, at + 1, Len(s)), Undoubled))
    ELSE IF CharAt(s, 1) # "\"" THEN CharAt(s, 1) \o Undoubled(SubSeq(s, 2, Len(s)))
    ELSE IF Len(s) >= 2 /\ CharAt(s, 2) = "\""
         THEN "\"" \o Undoubled(SubSeq(s, 3, Len(s)))
    ELSE Undoubled(SubSeq(s, 2, Len(s)))

\* the fields of the text in order: their value (v), whether they are enclosed
\* in quotes (q) and the separator that ends them (end)
CsvFields(s) ==
    LET seps == SeparatorsOf(s)
        n == Cardinality(seps)
        Sep(k) == IF k = 0 THEN 0
                  ELSE IF k > n THEN Len(s) + 1
                  ELSE CHOOSE i \in seps : Cardinality({j \in seps : j < i}) = k - 1
        Raw(k) == SubSeq(s, Sep(k - 1) + 1, Sep(k) - 1)
        Enclosed(f) == Len(f) >= 2 /\ CharAt(f, 1) = "\"" /\ CharAt(f, Len(f)) = "\""
    IN  [k \in 1..(n + 1) |->
            [v |-> IF Enclosed(Raw(k)) THEN Undoubled(SubSeq(Raw(k), 2, Len(Raw(k)) - 1))
                   ELSE Raw(k),
             q |-> Enclosed(Raw(k)),
             end |-> IF k > n THEN "" ELSE CharAt(s, Sep(k))]]

FieldNames == <<"chain", "wallet", "asset", "contract", "decimals", "balance", "error">>

\* field k of a record read back is the value the row has under that name
FieldIsOf(f, r, k) ==
    CASE k = 5 -> "decimals" \in DOMAIN r => f.v = DigitsOf(r.decimals)
      [] k = 6 -> f.v = fix4(r)
      [] OTHER -> FieldNames[k] \in DOMAIN r => f.v = r[FieldNames[k]]

Exported(kind) == output # Null /\ output[1].kind = kind

\* C21: the text written by exportCsv reads back as the header and then one
\* record per row, in the order of the rows, each of seven fields holding the
\* row's chain, wallet, asset, contract, decimals, balance and error in that
\* order, every one of them enclosed in quotes (embedded quotes doubled, so
\* that the text reads back to the row's own value).
C21_CsvLinePerRowQuoted ==
    Exported("csv") =>
        LET fs == CsvFields(output[1].text)
            rs == output[1].rows
        IN  /\ Len(fs) = 7 * (Len(rs) + 1)
            /\ \A k \in 1..7 : fs[k].v = FieldNames[k]
            /\ \A i \in 0..Len(rs), k \in 1..7 :
                 fs[7 * i + k].end =
                     IF k < 7 THEN "," ELSE IF i < Len(rs) THEN "\n" ELSE ""
            /\ \A i \in 1..Len(rs), k \in 1..7 :
                 fs[7 * i + k].q /\ FieldIsOf(fs[7 * i + k], rs[i], k)

\* two different rows were exported, the second with a message that has quotes
C21_Witness ==
    /\ Exported("csv")
    /\ Len(output[1].rows) = 2
    /\ output[1].rows[1] = NativeRow(CH_ETH, ADDR_A, [mant |-> 123456789, exp |-> 13])
    /\ output[1].rows[2] = TokenErrorRow(CH_ETH, ADDR_A, TK_DAI, QuotedErrMsg)

\* the text is digits, a point and exactly four digits
FourFractionDigits(s) ==
    /\ Len(s) >= 6
    /\ CharAt(s, Len(s) - 4) = "."
    /\ \A i \in (1..Len(s)) \ {Len(s) - 4} : \E d \in 1..10 : CharAt(s, i) = Digit[d]

RECURSIVE NumberOfDigits(_, _)

\* the number a string of digits writes, after the number n of the digits
\* before it
NumberOfDigits(s, n) ==
    IF s = "" \/ Len(n) < 0 THEN n
    ELSE NumberOfDigits(SubSeq(s, 2, Len(s)),
                        BigAdd(BigTimes10(n), BigOfInt(DigitVal(SubSeq(s, 1, 1)))))

\* the text, digits with four of them after a point, writes a number that
\* is at most half of 1/10^4 away from the double of x
NearestOfFour(text, x) ==
    LET v == Double(x)
        n == NumberOfDigits(SubSeq(text, 1, Len(text) - 5)
                                \o SubSeq(text, Len(text) - 3, Len(text)), <<>>)
        unit == BigTwices(<<1>>, v.scale)
        a == BigTwices(n, v.scale)
        b == BigTimes10s(BigTwices(v.sig, 0 - v.scale), 4)
        gap == IF BigLess(a, b) THEN BigSub(b, a) ELSE BigSub(a, b) IN
    ~BigLess(unit, BigTwice(gap))

\* the balance fields of the last export, in the order of its rows
BalanceFields ==
    IF Exported("csv")
    THEN [i \in 1..Len(output[1].rows) |-> CsvFields(output[1].lines[i])[6].v]
    ELSE [i \in 1..Len(output[1].rows) |-> output[1].data[i].balance[1]]

\* the error fields of the last export, in the order of its rows
ErrorFields ==
    IF Exported("csv")
    THEN [i \in 1..Len(output[1].rows) |-> CsvFields(output[1].lines[i])[7].v]
    ELSE [i \in 1..Len(output[1].rows) |-> output[1].data[i].error[1]]

\* C22: in both exports the balance field of a row that has a balance is
\* the stored balance with exactly 4 fractional digits, the balance field of
\* a row whose balance is null or absent is empty, and every row exported
\* with an empty balance field has a non-empty error field.
C22_BalanceFourDigitsOrEmpty ==
    (Exported("csv") \/ Exported("xlsx")) =>
        \A i \in 1..Len(output[1].rows) :
            LET r == output[1].rows[i]
            IN  /\ HasBalance(r) =>
                     /\ FourFractionDigits(BalanceFields[i])
                     /\ NearestOfFour(BalanceFields[i], r.balance[1])
                /\ ~HasBalance(r) => BalanceFields[i] = ""
                /\ BalanceFields[i] = "" => ErrorFields[i] # ""

\* C23: fmt(value, 4) of a balance between 1e-10 and 1e30 is never in
\* scientific notation (it has no e or E) and always shows exactly 4
\* fractional digits: the decimal separator of the host's locale, four
\* digits after it and only digits and grouping separators before it.
C23_FmtFixedNoExponent ==
    Exported("table") =>
        \A i \in 1..Len(output[1].rows) :
            HasBalance(output[1].rows[i]) =>
                LET s == output[1].cells[i]
                    locale == output[1].locale
                IN  /\ \A k \in 1..Len(s) : CharAt(s, k) \notin {"e", "E"}
                    /\ Len(s) >= 6
                    /\ CharAt(s, Len(s) - 4) = locale.decimal
                    /\ \A k \in (Len(s) - 3)..Len(s) :
                         \E d \in 1..10 : CharAt(s, k) = Digit[d]
                    /\ \A k \in 1..(Len(s) - 5) :
                         \/ CharAt(s, k) = locale.group
                         \/ \E d \in 1..10 : CharAt(s, k) = Digit[d]

\* the table showed a balance of 1e-10 and one of 1e30 on a host that groups
\* by lakh and crore
C23_Witness ==
    /\ Exported("table")
    /\ output[1].locale = EN_IN
    /\ Len(output[1].rows) = 2
    /\ \A i \in 1..2 : HasBalance(output[1].rows[i])
    /\ output[1].rows[1].balance = Some([mant |-> 1, exp |-> -10])
    /\ output[1].rows[2].balance = Some([mant |-> 1, exp |-> 30])
    /\ output[1].cells[1] = "0.0000"
    /\ output[1].cells[2] = "10,00,00,00,00,00,00,00,00,00,00,00,00,00,000.0000"

\* C30: for every row of a published result set, the chain-level
\* connect-error row without wallet, asset and contract included, exportCsv
\* writes the empty string for each field that the row does not have.
C30_AbsentFieldsExportedEmpty ==
    Exported("csv") =>
        \A i \in 1..Len(output[1].rows), k \in 1..7 :
            ~Has(output[1].rows[i], FieldNames[k])
                => CsvFields(output[1].lines[i])[k].v = ""

\* the pass is suspended on a network call
Suspended(p) == p.await \notin {"none", "done"}

\* the loop position and the step of a call, as one number that grows in the
\* order chain, wallet, token, step
StepOf(op) ==
    CASE op = "probe" -> 0 [] op = "native" -> 1 [] op = "decimals" -> 2
      [] op = "symbol" -> 3 [] OTHER -> 4

OrderOf(c) == ((c.ci * 10 + c.wi) * 10 + c.ti) * 10 + StepOf(c.op)

\* C24: within a single pass at most one network call is outstanding at any
\* time: the calls the pass has issued are the ones that have settled and,
\* while it is suspended, the one it awaits, and they were issued chain by
\* chain, wallet by wallet, token by token (probe, native balance, decimals,
\* symbol, token balance).
C24_OneCallOutstanding ==
    \A p \in AllPasses :
        /\ p.issued - Len(p.calls) = IF Suspended(p) THEN 1 ELSE 0
        /\ \A k \in 1..(Len(p.calls) - 1) : OrderOf(p.calls[k]) < OrderOf(p.calls[k + 1])
        /\ Suspended(p) /\ p.calls # <<>> =>
             OrderOf(p.calls[Len(p.calls)])
                 < OrderOf([op |-> p.await, ci |-> p.ci, wi |-> p.wi, ti |-> p.ti])

\* a pass over two wallets and a token without overrides is suspended on the
\* symbol call for the second wallet: the probe, the native balance, the
\* decimals, the symbol and the token balance call for the first wallet and
\* the native balance and the decimals call for the second have settled, one
\* of them by failing
C24_Witness ==
    /\ Len(passes) = 1
    /\ passes[1].await = "symbol"
    /\ passes[1].wi = 2
    /\ Len(passes[1].calls) = 7
    /\ passes[1].issued = 8
    /\ passes[1].faults = 1
    /\ \E k \in 1..7 : passes[1].calls[k].op = "balanceOf" /\ passes[1].calls[k].wi = 1

(***************************************************************************)
(* Passes whose network calls all settle: the call that the pass with a    *)
(* given id awaits does not stay outstanding for ever.  The pass runs over *)
(* each configuration of InitPass.                                         *)
(***************************************************************************)
Settle(id) ==
    \E i \in 1..Len(passes) : passes[i].id = id /\ (CallReturns(i) \/ CallFails(i))

SpecSettle ==
    InitPass /\ [][NextPass]_vars /\ \A id \in 1..MaxStarts : WF_vars(Settle(id))

InFlight(id) == \E i \in 1..Len(passes) : passes[i].id = id

\* the state in which the pass with this id has just run its final step
Finished(id) ==
    /\ done # Null
    /\ done[1].id = id
    /\ done[1].await = "done"
    /\ loading = FALSE
    /\ IF done[1].thrown = Null
       THEN rows = done[1].out /\ lastUpdated = Some(now - 1)
       ELSE error = done[1].thrown

\* C25: when every network call eventually returns or fails, every started
\* pass eventually reaches its final step, which resets loading to false
\* after the pass has published its result set with a new lastUpdated or has
\* set the top-level error.
C25_EveryPassFinishes ==
    \A id \in 1..MaxStarts : InFlight(id) ~> Finished(id)

\* a pass over two chains, two valid wallets and a token without overrides
\* has just published: it awaited the calls of the second chain, the token
\* balance of the second wallet among them, and three of its calls failed
C25_Witness ==
    /\ done # Null
    /\ Finished(done[1].id)
    /\ Len(done[1].chains) = 2
    /\ done[1].faults = MaxFaults
    /\ \E k \in 1..Len(done[1].calls) :
          /\ done[1].calls[k].op = "balanceOf"
          /\ done[1].calls[k].ci = 2
          /\ done[1].calls[k].wi = 2
    /\ \E k \in 1..Len(done[1].calls) : done[1].calls[k].op = "symbol"
    /\ rows = done[1].out
    /\ Len(rows) > 4

\* C26: for every interleaving of Start, timer ticks, interval changes and
\* "Refresh now", loading is true exactly while at least one pass is in
\* flight, so that "Refresh now", disabled while loading, never starts a pass
\* while another one is in flight (of a component that is on the page).
C26_LoadingIffPassInFlight == ~crashed => (loading <=> passes # <<>>)

\* C27: under any sequence of Start, Stop and interval changes at most one
\* refresh timer is active at a time, a timer is active only while running
\* is true and the interval is positive, and after Stop no timer is active,
\* so that no further timer-initiated pass can start (a pass in flight may
\* still finish).
C27_OneTimerOnlyWhileRunning ==
    /\ Cardinality(timers) <= 1
    /\ timers # {} => running /\ intervalSec > 0
    /\ \A t \in timers : t.sec = intervalSec /\ timerRef = Some(t)
    /\ ~running => ~ENABLED TimerTick

\* stopped with a positive interval after two passes were started, one of
\* them still in flight
C27_Witness ==
    /\ ~running
    /\ intervalSec > 0
    /\ nextId >= 2
    /\ nextId < MaxStarts
    /\ passes # <<>>
    /\ timers = {}

\* the pass the step has started, in flight or already finished
StartedPass ==
    IF done' # Null /\ done'[1].id = nextId' THEN done'[1]
    ELSE passes'[Len(passes')]

\* C28: every timer-initiated pass reads the chains, wallets and tokens that
\* are current when its tick fires, so that an edit made after Start, with
\* running and the interval unchanged, is reflected in the next periodic pass.
C28_TickReadsCurrentConfig ==
    [][TimerTick =>
          /\ StartedPass.chains = chains
          /\ StartedPass.wallets = wallets
          /\ StartedPass.tokens = tokens]_vars

\* positions in p.out of the success rows of tokens
TokenSuccessRows(p) ==
    { i \in 1..Len(p.out) : p.outBy[i].ti > 0 /\ HasBalance(p.out[i]) }

\* the query op of the unit that pushed row i of pass p was rejected
QueryFailed(p, i, op) ==
    \E k \in CallsOfUnit(p, p.outBy[i].ci, p.outBy[i].wi, p.outBy[i].ti, op) :
        ~p.calls[k].ok

\* C29 as claimed: within one pass all success rows for the same token
\* contract on the same chain carry the same decimals and the same asset
\* symbol, whichever wallets they belong to and whichever metadata queries
\* fail during the pass.
C29_SameMetadataPerContract ==
    \A p \in AllPasses : (p.await = "done" /\ p.thrown = Null) =>
        \A i, j \in TokenSuccessRows(p) :
            (p.out[i].chain = p.out[j].chain /\ p.out[i].contract = p.out[j].contract)
                => /\ p.out[i].decimals = p.out[j].decimals
                   /\ p.out[i].asset = p.out[j].asset

\* C29: within one pass, two success rows of the same token entry on the
\* same chain carry the same decimals when the decimals query ended alike
\* for their two wallets (never issued, returned for both or rejected for
\* both), and the same asset symbol when the symbol query ended alike; the
\* row of a wallet for which a query was rejected carries the default (18,
\* the first 6 characters of the address), whatever the rows of the other
\* wallets carry.
C29_MetadataSameUnlessQueryFailed ==
    \A p \in AllPasses : (p.await = "done" /\ p.thrown = Null) =>
        \A i \in TokenSuccessRows(p) :
            /\ QueryFailed(p, i, "decimals") => p.out[i].decimals = 18
            /\ QueryFailed(p, i, "symbol") => p.out[i].asset = Slice(p.out[i].contract, 6)
            /\ \A j \in TokenSuccessRows(p) :
                   (p.outBy[i].ci = p.outBy[j].ci /\ p.outBy[i].ti = p.outBy[j].ti)
                       => /\ (QueryFailed(p, i, "decimals") <=> QueryFailed(p, j, "decimals"))
                              => p.out[i].decimals = p.out[j].decimals
                          /\ (QueryFailed(p, i, "symbol") <=> QueryFailed(p, j, "symbol"))
                              => p.out[i].asset = p.out[j].asset

\* a finished pass with two success rows of one token for two wallets: the
\* decimals query was rejected for the first wallet only, the symbol query
\* returned for both
C29_Witness ==
    /\ done # Null
    /\ done[1].thrown = Null
    /\ \E i, j \in TokenSuccessRows(done[1]) :
          /\ i < j
          /\ done[1].out[i].contract = done[1].out[j].contract
          /\ done[1].outBy[i].wi # done[1].outBy[j].wi
          /\ QueryFailed(done[1], i, "decimals")
          /\ ~QueryFailed(done[1], j, "decimals")
          /\ done[1].out[i].decimals = 18
          /\ done[1].out[j].decimals = 6
          /\ done[1].out[i].asset = done[1].out[j].asset
====
